---- MODULE Spec2Model ----
(***************************************************************************)
(* A model of undrdg's content store (src/undrdg/path.py): Directory,      *)
(* Debouncer and BaseFile, with the manifest file, the content files and   *)
(* the three locks as state, and one action per step of each method that   *)
(* another thread or a crash can observe.                                  *)
(***************************************************************************)
EXTENDS Integers, Sequences, FiniteSets, TLC

(***************************************************************************)
(* Bounds of the model.                                                    *)
(***************************************************************************)
\* entry names are 1..NNames (compared with <, like the strings they stand for)
NNames == 2
\* worker threads; each holds at most one file handle at a time
NWorkers == 2
\* write calls per file handle
MaxWrites == 2
\* file handles each worker creates
MaxFiles == 1
\* close() calls per file handle that reach compressor.finish()
MaxCloses == 2
\* Directory objects the model follows: the root and its first subdirectories
NDirs == 2

Names == 1..NNames
Workers == 1..NWorkers
\* the thread started by Debouncer.__init__
DebThread == NWorkers + 1
Agents == Workers \cup {DebThread}

\* the directory the run starts from; its subdirectory called n is directory n + 1
Root == 1
Dirs == 1..NDirs
Child(d, n) == n + 1
\* the subdirectories whose Directory object the model follows
Tracked(d, n) == d = Root /\ Child(d, n) \in Dirs

\* a threading.Lock that no thread holds
Free == 0
\* a path with no file under it
NoFile == 0
\* the bytes a write call can pass
Bytes == {1, 2}
Chunks == {<<b>> : b \in Bytes}
\* a byte of a file that was skipped over by a write past its end
Hole == 0
\* the bytes finish() appends to end the stream
Trailer == 9

(***************************************************************************)
(* Sequences.                                                              *)
(***************************************************************************)
Range(s) == {s[i] : i \in 1..Len(s)}

NoDup(s) == \A i, j \in 1..Len(s) : i # j => s[i] # s[j]

Take(s, k) == SubSeq(s, 1, k)
Drop(s, k) == SubSeq(s, k + 1, Len(s))

InsertAt(s, i, x) == Take(s, i) \o <<x>> \o Drop(s, i)

\* the names of a list of entries (operator.itemgetter("name") on each)
KeysOf(list) == [i \in 1..Len(list) |-> list[i].name]

\* list.sort() of names: each element inserted after the smaller or equal ones
RECURSIVE SortNames(_)
SortNames(s) ==
    IF s = <<>> THEN <<>>
    ELSE LET rest == SortNames(Take(s, Len(s) - 1))
             x == s[Len(s)]
             k == Cardinality({i \in 1..Len(rest) : rest[i] <= x})
         IN  InsertAt(rest, k, x)

\* list.sort(key=operator.itemgetter("name")) of entries
RECURSIVE SortEntries(_)
SortEntries(s) ==
    IF s = <<>> THEN <<>>
    ELSE LET rest == SortEntries(Take(s, Len(s) - 1))
             x == s[Len(s)]
             k == Cardinality({i \in 1..Len(rest) : rest[i].name <= x.name})
         IN  InsertAt(rest, k, x)

\* bisect.bisect_left over the keys of a list: the binary search, 0-based result
RECURSIVE Bisect(_, _, _, _)
Bisect(keys, x, lo, hi) ==
    IF lo < hi
    THEN LET mid == (lo + hi) \div 2
         IN  IF keys[mid + 1] < x THEN Bisect(keys, x, mid + 1, hi)
             ELSE Bisect(keys, x, lo, mid)
    ELSE lo

bisect_left(keys, x) == Bisect(keys, x, 0, Len(keys))

(***************************************************************************)
(* Hashes and the compressor.                                              *)
(***************************************************************************)
\* undr.utilities.new_hash(): the state of a hash object that was fed nothing
HashInit == 1
HashMod == 7
\* hash.update(data), then hexdigest() reads the state
RECURSIVE HashUpdate(_, _)
HashUpdate(h, data) ==
    IF data = <<>> THEN h
    ELSE HashUpdate((h * 3 + Head(data)) % HashMod, Tail(data))

Hash(data) == HashUpdate(HashInit, data)

\* "hash": None of a fresh index entry
NoHash == -1

\* what the compressor makes of one input byte
Enc(b) == b + 2
Encode(data) == [i \in 1..Len(data) |-> Enc(data[i])]

\* a whole compressed stream: encoded bytes, then the trailer
IsStream(s) ==
    /\ Len(s) >= 1
    /\ s[Len(s)] = Trailer
    /\ \A i \in 1..(Len(s) - 1) : s[i] \in {Enc(b) : b \in Bytes}

\* file.write(data) at offset pos of a file holding content
WriteAt(content, pos, data) ==
    LET n == IF pos + Len(data) > Len(content) THEN pos + Len(data) ELSE Len(content)
    IN  [i \in 1..n |->
            IF i > pos /\ i <= pos + Len(data) THEN data[i - pos]
            ELSE IF i <= Len(content) THEN content[i]
            ELSE Hole]

(***************************************************************************)
(* Manifests.                                                              *)
(***************************************************************************)
DEFAULT_INDEX_DATA ==
    [directories |-> <<>>, files |-> <<>>, other_files |-> <<>>,
     version |-> <<1, 0, 0>>]

\* an entry written by an earlier run
OldEntry(n) ==
    [name |-> n, size |-> 0, hash |-> Hash(<<>>), csize |-> 1,
     chash |-> Hash(<<Trailer>>), metadata |-> "old"]

Doc(ds, fs, os) ==
    [directories |-> ds, files |-> fs, other_files |-> os, version |-> <<1, 0, 0>>]

\* manifests an earlier run (or another tool) can have left in a directory
EarlierManifests ==
    { Doc(<<2, 1>>, <<>>, <<>>),
      Doc(<<>>, <<OldEntry(2), OldEntry(1)>>, <<>>),
      Doc(<<>>, <<OldEntry(1)>>, <<OldEntry(2)>>),
      Doc(<<1>>, <<>>, <<OldEntry(1)>>) }

Absent == [st |-> "absent", doc |-> DEFAULT_INDEX_DATA]
Truncated == [st |-> "empty", doc |-> DEFAULT_INDEX_DATA]
Written(doc) == [st |-> "doc", doc |-> doc]

\* the names of a manifest in the order Directory.__init__ visits them
DocNames(doc) ==
    doc.directories
        \o KeysOf(doc.files) \o KeysOf(doc.other_files)

\* Directory.__init__ raises on a name it meets twice
Accepted(doc) == NoDup(DocNames(doc))

\* Directory.__init__: the three lists sorted
Loaded(doc) ==
    [doc EXCEPT !.directories = SortNames(doc.directories),
                !.files = SortEntries(doc.files),
                !.other_files = SortEntries(doc.other_files)]

\* create_subdirectory: the insertion into index_data["directories"]
InsertDirectory(list, name) ==
    LET insertion_point == bisect_left(list, name)
    IN  IF insertion_point = Len(list) THEN Append(list, name)
        ELSE IF name # list[insertion_point + 1]
             THEN InsertAt(list, insertion_point, name)
             ELSE list

\* an insertion that never replaces the entry it finds under the name
InsertEntryBeside(list, entry) ==
    InsertAt(list, bisect_left(KeysOf(list), entry.name), entry)

\* an insertion that does not look for the place of the name
InsertEntryAtEnd(list, entry) == Append(list, entry)

\* update_index: the insertion into index_data[key]
InsertEntry(list, entry) ==
    LET insertion_point == bisect_left(KeysOf(list), entry.name)
    IN  IF insertion_point = Len(list) THEN Append(list, entry)
        ELSE IF list[insertion_point + 1].name = entry.name
             THEN [list EXCEPT ![insertion_point + 1] = entry]
             ELSE InsertAt(list, insertion_point, entry)

(***************************************************************************)
(* State.                                                                  *)
(***************************************************************************)
VARIABLES
    index_file,          \* per directory: what lies under index_path
    dstate,              \* per directory: "none", "open" (a Directory object), "rejected"
    index_data,          \* per directory: Directory.index_data
    added_names,         \* per directory: Directory.added_names
    index_update_lock,   \* per directory: the holder of index_update_lock, or Free
    index_write_lock,    \* per directory: the holder of index_write_lock, or Free
    debouncer,           \* per directory: whether Directory.debouncer is not None
    debouncer_id,        \* per directory: Directory.debouncer_id
    directories,         \* Debouncer.directories
    flags,               \* Debouncer.flags
    running,             \* Debouncer.running
    lock,                \* the holder of Debouncer.lock, or Free
    running_copy,        \* target(): the local variable running
    directories_to_update, \* target(): the directories still to save in this pass
    pc,                  \* per thread: where it is in the call it runs
    loc,                 \* per thread: the local variables of that call
    file,                \* per worker: the BaseFile object it holds
    write_path,          \* per (directory, name): the file under <name>.br.write
    path,                \* per (directory, name): the file under <name>.br
    inodes,              \* per file of the file system: its bytes
    closer,              \* the caller of Debouncer.close(): "idle", "join", "returned"
    err,                 \* per worker: the exception its last call raised
    late,                \* whether some update had not returned when
                         \* Debouncer.close() was called
    last_snapshot,       \* per directory: the copy of index_data that
                         \* save_index_data took last (a history variable:
                         \* <<copy>>, or NoSnapshot)
    file_data,           \* read_aerdat2: data, the bytes still to decode
    parsed_data,         \* read_aerdat2: the records of the file
    aedat2,              \* read_aerdat2: the Aerdat2 it returns
    local,               \* read_aerdat1, read_aerdat2 and read_aerdat_header:
                         \* where the call is, and its other local variables
    aerdat1,             \* read_aerdat1: the Aerdat1 it returns
    source_tree,         \* copy_tree: the directory source and what is below it
    rules,               \* copy_tree: rules
    stack,               \* the calls of the generator tasks() that have not
                         \* ended, the innermost last
    tasks_list,          \* copy_tree: tasks_list
    created,             \* the subdirectories made with create_subdirectory,
                         \* and the source directory of each
    handled,             \* the index of every task handle_task was called on
    copy_pc              \* where copy_tree is

storeVars == <<index_file, dstate, index_data, added_names, index_update_lock,
               index_write_lock, debouncer, debouncer_id, directories, flags, running,
               lock, running_copy, directories_to_update, pc, loc, file, write_path,
               path, inodes, closer, err, late, last_snapshot>>
treeVars == <<source_tree, rules, stack, tasks_list, created, handled, copy_pc>>
\* what copy_tree never touches, the store apart
decodeVars == <<file_data, parsed_data, aedat2, local, aerdat1>>
\* what read_aerdat2 never touches, the store apart
restVars == <<aerdat1, treeVars>>
parserVars == <<file_data, parsed_data, aedat2, local, restVars>>

vars == <<storeVars, parserVars>>

dirVars == <<index_file, dstate, index_data, added_names, debouncer, debouncer_id>>
lockVars == <<index_update_lock, index_write_lock>>
debVars == <<directories, flags, running, lock, running_copy, directories_to_update>>
fsVars == <<write_path, path, inodes>>
\* what no step of a file or of a Directory touches
closeVars == <<closer, late, last_snapshot, parserVars>>

Paths == Dirs \X Names

\* the exception a call raised, and the name it was about
Raised(type, name) == [type |-> type, name |-> name]
NoError == Raised("none", 1)

\* no call of save_index_data has copied index_data yet
NoSnapshot == <<>>

NoLoc ==
    [op |-> "none", d |-> Root, name |-> 1, deb |-> FALSE, already |-> FALSE,
     index_data |-> DEFAULT_INDEX_DATA, compressed_data |-> <<>>]

\* BaseFile.__init__: the fields of a new file object
NewEntry(name) ==
    [name |-> name, size |-> 0, hash |-> NoHash, csize |-> 0, chash |-> NoHash,
     metadata |-> "new"]

\* besides the fields of the object: written, the bytes its write calls were
\* given; reopened, whether open() found a file under the temporary path;
\* raised, whether the body of its with block has raised; exited, whether
\* __exit__ has returned without calling close()
NewFile(d, name, key, inode, nth) ==
    [obj |-> TRUE, nth |-> nth, d |-> d, name |-> name, key |-> key, handle |-> "open",
     compressor |-> "active", inode |-> inode, pos |-> 0,
     index_entry |-> NewEntry(name),
     uncompressed_hash_object |-> HashInit, compressed_hash_object |-> HashInit,
     pending |-> <<>>, writes |-> 0, finishes |-> 0,
     written |-> <<>>, reopened |-> FALSE, raised |-> FALSE, exited |-> FALSE]

NoFileObject ==
    [NewFile(Root, 1, "files", NoFile, 0) EXCEPT !.obj = FALSE, !.handle = "None",
                                              !.compressor = "None"]

(***************************************************************************)
(* The file system of content files.                                       *)
(***************************************************************************)
\* the files some path or some open handle still refers to
Referenced(wp, fp, fl) ==
    {wp[p] : p \in Paths} \cup {fp[p] : p \in Paths}
        \cup {fl[w].inode : w \in {v \in Workers : fl[v].handle = "open"}}

\* files nothing refers to are gone
Collect(ino, wp, fp, fl) ==
    [i \in (DOMAIN ino) \cap Referenced(wp, fp, fl) |-> ino[i]]

NewInode(ino) ==
    CHOOSE i \in 1..(Cardinality(DOMAIN ino) + 1) :
        /\ i \notin DOMAIN ino
        /\ \A j \in 1..(i - 1) : j \in DOMAIN ino

\* the names of the entries an earlier run left in a manifest
OldFiles(doc) == Range(KeysOf(doc.files)) \cup Range(KeysOf(doc.other_files))

(***************************************************************************)
(* Directory.__init__                                                      *)
(***************************************************************************)
\* the manifest __init__ reads: the default one when index_path does not exist
OnDisk(f) == IF f.st = "absent" THEN DEFAULT_INDEX_DATA ELSE f.doc

\* whether __init__ returns (json load and the duplicate check pass)
Opens(f) == f.st # "empty" /\ Accepted(OnDisk(f))

\* Debouncer.register under Debouncer.lock
Register(d, deb) ==
    IF deb
    THEN /\ lock = Free
         /\ directories' = Append(directories, d)
         /\ flags' = Append(flags, FALSE)
         /\ debouncer_id' = [debouncer_id EXCEPT ![d] = Len(directories)]
    ELSE /\ UNCHANGED <<directories, flags>>
         /\ debouncer_id' = [debouncer_id EXCEPT ![d] = 0]

DirectoryInit(d, deb) ==
    /\ index_file' = [index_file EXCEPT ![d] =
                          IF @.st = "absent" THEN Written(DEFAULT_INDEX_DATA) ELSE @]
    /\ IF Opens(index_file[d])
       THEN /\ dstate' = [dstate EXCEPT ![d] = "open"]
            /\ index_data' = [index_data EXCEPT ![d] = Loaded(OnDisk(index_file[d]))]
            /\ added_names' = [added_names EXCEPT ![d] = {}]
            /\ debouncer' = [debouncer EXCEPT ![d] = deb]
            /\ Register(d, deb)
       ELSE /\ dstate' = [dstate EXCEPT ![d] = "rejected"]
            /\ UNCHANGED <<index_data, added_names, debouncer, debouncer_id,
                           directories, flags>>

(***************************************************************************)
(* Initial states: the root Directory has been constructed over whatever   *)
(* an earlier run left (one of manifests, or nothing), with a Debouncer    *)
(* (as copy_tree does) or without, and the threads of pool are idle.       *)
(***************************************************************************)
StoreInit(deb, pool, manifests) ==
    /\ \E f \in {Absent} \cup {Written(m) : m \in manifests} :
        /\ index_file = [d \in Dirs |->
                            IF d # Root THEN Absent
                            ELSE IF f.st = "absent" THEN Written(DEFAULT_INDEX_DATA)
                            ELSE f]
        /\ dstate = [d \in Dirs |->
                        IF d # Root THEN "none"
                        ELSE IF Opens(f) THEN "open" ELSE "rejected"]
        /\ index_data = [d \in Dirs |->
                            IF d = Root /\ Opens(f) THEN Loaded(OnDisk(f))
                            ELSE DEFAULT_INDEX_DATA]
        /\ path = [p \in Paths |->
                      IF p[1] = Root /\ p[2] \in OldFiles(OnDisk(f)) THEN p[2]
                      ELSE NoFile]
        /\ inodes = [i \in OldFiles(OnDisk(f)) |-> <<Trailer>>]
        /\ debouncer = [d \in Dirs |-> d = Root /\ deb /\ Opens(f)]
        /\ directories = IF deb /\ Opens(f) THEN <<Root>> ELSE <<>>
        /\ flags = IF deb /\ Opens(f) THEN <<FALSE>> ELSE <<>>
    /\ added_names = [d \in Dirs |-> {}]
    /\ index_update_lock = [d \in Dirs |-> Free]
    /\ index_write_lock = [d \in Dirs |-> Free]
    /\ debouncer_id = [d \in Dirs |-> 0]
    /\ running = deb
    /\ lock = Free
    /\ running_copy = deb
    /\ directories_to_update = <<>>
    /\ pc = [a \in Agents |-> IF a # DebThread
                              THEN IF a \in pool THEN "idle" ELSE "none"
                              ELSE IF deb THEN "top" ELSE "none"]
    /\ loc = [a \in Agents |-> NoLoc]
    /\ file = [w \in Workers |-> NoFileObject]
    /\ write_path = [p \in Paths |-> NoFile]
    /\ closer = "idle"
    /\ err = [w \in Workers |-> NoError]
    /\ late = FALSE
    /\ last_snapshot = [d \in Dirs |-> NoSnapshot]

(***************************************************************************)
(* BaseFile                                                                *)
(***************************************************************************)
\* compressor.process(data): the encoder holds back any suffix of its output
process(pending, data, k) == Take(pending \o Encode(data), k)

\* compressor.finish(): what was held back, then the trailer; a second
\* finish() on the same compressor has nothing left to give
finish(compressor, pending) ==
    IF compressor = "active" THEN pending \o <<Trailer>> ELSE <<>>

\* an open() that leaves what is in the file it finds
OpenKeeping(ino, i) ==
    [j \in (DOMAIN ino) \cup {i} |-> IF j \in DOMAIN ino THEN ino[j] ELSE <<>>]

\* open(self._write_path, "wb"): the file i is empty, whether it was there or not
OpenForWriting(ino, i) ==
    [j \in (DOMAIN ino) \cup {i} |-> IF j = i THEN <<>> ELSE ino[j]]

\* Directory.create_file / create_other_file -> BaseFile.__init__:
\* open(write_path, "wb") truncates the file under the temporary path, or makes one
CreateFile(w, d, name, key) ==
    /\ pc[w] = "idle"
    /\ dstate[d] = "open"
    /\ ~file[w].obj
    /\ file[w].nth < MaxFiles
    /\ LET existing == write_path[<<d, name>>]
           i == IF existing # NoFile THEN existing ELSE NewInode(inodes)
           fl == [file EXCEPT ![w] =
                     [NewFile(d, name, key, i, file[w].nth + 1)
                          EXCEPT !.reopened = (existing # NoFile)]]
           wp == [write_path EXCEPT ![<<d, name>>] = i]
           ino == OpenForWriting(inodes, i)
       IN  /\ file' = fl
           /\ write_path' = wp
           /\ inodes' = Collect(ino, wp, path, fl)
    /\ err' = [err EXCEPT ![w] = NoError]
    /\ UNCHANGED <<dirVars, lockVars, debVars, pc, loc, path, closeVars>>

\* BaseFile.write_raw
WriteRaw(w, data, k) ==
    LET f == file[w]
        compressed_data == process(f.pending, data, k)
    IN  /\ pc[w] = "idle"
        /\ f.handle = "open"
        /\ f.compressor = "active"
        /\ ~f.raised
        /\ f.writes < MaxWrites
        /\ k \in 0..Len(f.pending \o Encode(data))
        /\ inodes' = [inodes EXCEPT ![f.inode] = WriteAt(@, f.pos, compressed_data)]
        /\ file' = [file EXCEPT ![w] =
               [f EXCEPT !.pending = Drop(f.pending \o Encode(data), k),
                         !.pos = @ + Len(compressed_data),
                         !.index_entry.size = @ + Len(data),
                         !.index_entry.csize = @ + Len(compressed_data),
                         !.uncompressed_hash_object = HashUpdate(@, data),
                         !.compressed_hash_object = HashUpdate(@, compressed_data),
                         !.writes = @ + 1,
                         !.written = @ \o data]]
        /\ err' = [err EXCEPT ![w] = NoError]
        /\ UNCHANGED <<dirVars, lockVars, debVars, pc, loc, write_path, path,
                       closeVars>>

\* the guard of BaseFile.close
AlreadyClosed(f) == f.handle = "None" \/ f.compressor = "None"

\* BaseFile.close, up to self._handle.close()
Close(w) ==
    LET f == file[w]
        compressed_data == finish(f.compressor, f.pending)
    IN  /\ pc[w] = "idle"
        /\ f.obj
        /\ f.finishes < MaxCloses
        /\ IF AlreadyClosed(f)
           THEN /\ err' = [err EXCEPT ![w] = Raised("DoubleClose", file[w].name)]
                /\ UNCHANGED <<file, inodes, pc, loc>>
           ELSE IF f.handle = "closed"
           THEN \* finish() runs again, then write() on the closed handle raises
                /\ err' = [err EXCEPT ![w] = Raised("ValueError", file[w].name)]
                /\ file' = [file EXCEPT ![w].finishes = @ + 1]
                /\ UNCHANGED <<inodes, pc, loc>>
           ELSE LET fl == [file EXCEPT ![w] =
                              [f EXCEPT !.handle = "closed",
                                        !.compressor = "finished",
                                        !.pending = <<>>,
                                        !.pos = @ + Len(compressed_data),
                                        !.finishes = @ + 1]]
                    ino == [inodes EXCEPT ![f.inode] =
                               WriteAt(@, f.pos, compressed_data)]
                IN  /\ file' = fl
                    /\ inodes' = Collect(ino, write_path, path, fl)
                    /\ pc' = [pc EXCEPT ![w] = "rename"]
                    /\ loc' = [loc EXCEPT ![w] =
                                  [NoLoc EXCEPT !.op = "close", !.d = f.d,
                                                !.name = f.name,
                                                !.compressed_data = compressed_data]]
                    /\ err' = [err EXCEPT ![w] = NoError]
        /\ UNCHANGED <<dirVars, lockVars, debVars, write_path, path, closeVars>>

\* BaseFile.close: self._write_path.replace(self._path), then the entry's
\* compressed size and both hashes
CloseRename(w) ==
    LET f == file[w]
        p == <<f.d, f.name>>
        compressed_data == loc[w].compressed_data
        h == HashUpdate(f.compressed_hash_object, compressed_data)
    IN  /\ pc[w] = "rename"
        /\ IF write_path[p] = NoFile
           THEN /\ err' = [err EXCEPT ![w] = Raised("FileNotFoundError", file[w].name)]
                /\ pc' = [pc EXCEPT ![w] = "idle"]
                /\ loc' = [loc EXCEPT ![w] = NoLoc]
                /\ UNCHANGED <<file, fsVars>>
           ELSE LET fp == [path EXCEPT ![p] = write_path[p]]
                    wp == [write_path EXCEPT ![p] = NoFile]
                IN  /\ path' = fp
                    /\ write_path' = wp
                    /\ inodes' = Collect(inodes, wp, fp, file)
                    /\ file' = [file EXCEPT ![w] =
                           [f EXCEPT !.index_entry.csize = @ + Len(compressed_data),
                                     !.compressed_hash_object = h,
                                     !.index_entry.hash = f.uncompressed_hash_object,
                                     !.index_entry.chash = h]]
                    /\ pc' = [pc EXCEPT ![w] = "update_index"]
                    /\ UNCHANGED <<loc, err>>
        /\ UNCHANGED <<dirVars, lockVars, debVars, closeVars>>

\* the worker leaves the with block (or drops the object): its task is over
Release(w) ==
    /\ pc[w] = "idle"
    /\ file[w].obj
    /\ file[w].handle # "open" \/ file[w].exited
    /\ file' = [file EXCEPT ![w] = [NoFileObject EXCEPT !.nth = file[w].nth]]
    /\ err' = [err EXCEPT ![w] = NoError]
    /\ UNCHANGED <<dirVars, lockVars, debVars, pc, loc, fsVars, closeVars>>

\* the body of the with block raises: no further write reaches the file
BodyRaises(w) ==
    /\ pc[w] = "idle"
    /\ file[w].obj
    /\ file[w].handle = "open"
    /\ ~file[w].raised
    /\ file' = [file EXCEPT ![w].raised = TRUE]
    /\ err' = [err EXCEPT ![w] = Raised("BodyError", file[w].name)]
    /\ UNCHANGED <<dirVars, lockVars, debVars, pc, loc, fsVars, closeVars>>

\* the type argument of __exit__
ExitType(f) == IF f.raised THEN "Exception" ELSE "None"

\* an __exit__ that closes whatever ended the block
ClosesAlways(type) == TRUE

\* File.__exit__ / OtherFile.__exit__: if type is None
ClosesOnExit(type) == type = "None"

\* __exit__ returns without self.close(): the exception goes on to the caller,
\* the handle stays open and the temporary file stays where it is
Leave(w) ==
    /\ file' = [file EXCEPT ![w].exited = TRUE]
    /\ UNCHANGED <<dirVars, lockVars, debVars, pc, loc, fsVars, closeVars, err>>

\* File.__exit__ / OtherFile.__exit__
Exit(w) ==
    /\ pc[w] = "idle"
    /\ file[w].obj
    /\ file[w].handle = "open"
    /\ ~file[w].exited
    /\ IF ClosesOnExit(ExitType(file[w])) THEN Close(w) ELSE Leave(w)

\* the process stops wherever it is and the program runs again: nothing in
\* memory survives, the files do, and Directory.__init__ reads the manifest
Restart ==
    LET fl == [w \in Workers |-> NoFileObject] IN
    /\ DirectoryInit(Root, FALSE)
    /\ file' = fl
    /\ inodes' = Collect(inodes, write_path, path, fl)
    /\ index_update_lock' = [d \in Dirs |-> Free]
    /\ index_write_lock' = [d \in Dirs |-> Free]
    /\ lock' = Free
    /\ pc' = [a \in Agents |-> IF pc[a] = "none" THEN "none" ELSE "idle"]
    /\ loc' = [a \in Agents |-> NoLoc]
    /\ err' = [w \in Workers |-> NoError]
    /\ last_snapshot' = [d \in Dirs |-> NoSnapshot]
    /\ UNCHANGED <<write_path, path, running, running_copy, directories_to_update,
                   closer, late, parserVars>>

(***************************************************************************)
(* Directory.update_index, Directory.create_subdirectory                   *)
(***************************************************************************)
\* a check that also counts the names loaded from the manifest
AlreadyPresent(d, name) ==
    name \in added_names[d] \cup Range(DocNames(index_data[d]))

\* the check of added_names in create_subdirectory and update_index
AlreadyAdded(d, name) == name \in added_names[d]

\* whether a Debouncer object exists in this run
DebouncerExists == pc[DebThread] # "none"

\* whether thread a is inside update_index or create_subdirectory with its
\* insertion made and its call not yet returned
Updating(a) ==
    /\ pc[a] \in {"set", "write_lock", "open", "write", "child"}
    /\ loc[a].op \in {"close", "create_subdirectory"}

\* what follows the release of index_update_lock in the call thread a runs:
\* close() clears the handle and returns, create_subdirectory builds the child
AfterUpdate(a) ==
    IF loc[a].op = "close"
    THEN /\ file' = [file EXCEPT ![a].handle = "None", ![a].compressor = "None"]
         /\ pc' = [pc EXCEPT ![a] = "idle"]
         /\ loc' = [loc EXCEPT ![a] = NoLoc]
    ELSE /\ pc' = [pc EXCEPT ![a] = "child"]
         /\ UNCHANGED <<file, loc>>

\* the end of the locked block of update_index and create_subdirectory:
\* save_index_data(index_update_lock_already_acquired=True) makes its copy and
\* goes for the write lock, or the directory is left to the debouncer
SaveOrSet(a, d, l, data) ==
    IF debouncer[d]
    THEN /\ pc' = [pc EXCEPT ![a] = "set"]
         /\ loc' = [loc EXCEPT ![a] = l]
         /\ UNCHANGED last_snapshot
    ELSE /\ pc' = [pc EXCEPT ![a] = "write_lock"]
         /\ loc' = [loc EXCEPT ![a] = [l EXCEPT !.already = TRUE, !.index_data = data]]
         /\ last_snapshot' = [last_snapshot EXCEPT ![d] = <<data>>]

\* Directory.update_index, from the acquisition of index_update_lock to the
\* end of the insertion (or to the exception)
UpdateIndex(w) ==
    LET f == file[w]
        d == f.d
        name == f.index_entry.name
    IN  /\ pc[w] = "update_index"
        /\ index_update_lock[d] = Free
        /\ IF AlreadyAdded(d, name)
           THEN /\ err' = [err EXCEPT ![w] = Raised("DuplicateAdd", name)]
                /\ pc' = [pc EXCEPT ![w] = "idle"]
                /\ loc' = [loc EXCEPT ![w] = NoLoc]
                /\ UNCHANGED <<index_data, added_names, index_update_lock, late,
                               last_snapshot>>
           ELSE LET data == [index_data[d] EXCEPT
                                ![f.key] = InsertEntry(@, f.index_entry)]
                IN  /\ added_names' = [added_names EXCEPT ![d] = @ \cup {name}]
                    /\ index_data' = [index_data EXCEPT ![d] = data]
                    /\ index_update_lock' = [index_update_lock EXCEPT ![d] = w]
                    /\ SaveOrSet(w, d, loc[w], data)
                    /\ late' = (late \/ closer # "idle")
                    /\ UNCHANGED err
        /\ UNCHANGED <<index_file, dstate, debouncer, debouncer_id, index_write_lock,
                       debVars, file, fsVars, closer, parserVars>>

\* Directory.create_subdirectory, from the acquisition of index_update_lock to
\* the end of the insertion (or to the exception)
CreateSubdirectory(w, d, name, deb) ==
    /\ pc[w] = "idle"
    /\ ~file[w].obj
    /\ dstate[d] = "open"
    /\ deb => DebouncerExists
    /\ index_update_lock[d] = Free
    /\ IF AlreadyAdded(d, name)
       THEN /\ err' = [err EXCEPT ![w] = Raised("DuplicateAdd", name)]
            /\ UNCHANGED <<index_data, added_names, index_update_lock, pc, loc, late,
                           last_snapshot>>
       ELSE LET data == [index_data[d] EXCEPT
                            !.directories = InsertDirectory(@, name)]
            IN  /\ added_names' = [added_names EXCEPT ![d] = @ \cup {name}]
                /\ index_data' = [index_data EXCEPT ![d] = data]
                /\ index_update_lock' = [index_update_lock EXCEPT ![d] = w]
                /\ SaveOrSet(w, d, [NoLoc EXCEPT !.op = "create_subdirectory",
                                                 !.d = d, !.name = name,
                                                 !.deb = deb], data)
                /\ late' = (late \/ closer # "idle")
                /\ err' = [err EXCEPT ![w] = NoError]
    /\ UNCHANGED <<index_file, dstate, debouncer, debouncer_id, index_write_lock,
                   debVars, file, fsVars, closer, parserVars>>

\* a set() that raises no flag
SetNoFlag(a) ==
    LET d == loc[a].d IN
    /\ pc[a] = "set"
    /\ lock = Free
    /\ index_update_lock' = [index_update_lock EXCEPT ![d] = Free]
    /\ AfterUpdate(a)
    /\ UNCHANGED <<dirVars, index_write_lock, debVars, fsVars, closeVars, err>>

\* Debouncer.set under Debouncer.lock, then the release of index_update_lock
Set(a) ==
    LET d == loc[a].d IN
    /\ pc[a] = "set"
    /\ lock = Free
    /\ flags' = [flags EXCEPT ![debouncer_id[d] + 1] = TRUE]
    /\ index_update_lock' = [index_update_lock EXCEPT ![d] = Free]
    /\ AfterUpdate(a)
    /\ UNCHANGED <<dirVars, index_write_lock, directories, running, lock,
                   running_copy, directories_to_update, fsVars, closeVars, err>>

\* create_subdirectory: return Directory(path=self.path / name, debouncer=debouncer)
CreateChild(w) ==
    LET d == loc[w].d
        name == loc[w].name
    IN  /\ pc[w] = "child"
        /\ IF Tracked(d, name)
           THEN DirectoryInit(Child(d, name), loc[w].deb)
           ELSE UNCHANGED <<dirVars, directories, flags>>
        /\ pc' = [pc EXCEPT ![w] = "idle"]
        /\ loc' = [loc EXCEPT ![w] = NoLoc]
        /\ UNCHANGED <<lockVars, running, lock, running_copy, directories_to_update,
                       file, fsVars, closeVars, err>>

(***************************************************************************)
(* Directory.save_index_data                                               *)
(***************************************************************************)
\* a direct call of save_index_data(index_update_lock_already_acquired=False)
SaveIndexData(w, d) ==
    /\ pc[w] = "idle"
    /\ ~file[w].obj
    /\ dstate[d] = "open"
    /\ pc' = [pc EXCEPT ![w] = "update_lock"]
    /\ loc' = [loc EXCEPT ![w] = [NoLoc EXCEPT !.op = "save_index_data", !.d = d]]
    /\ err' = [err EXCEPT ![w] = NoError]
    /\ UNCHANGED <<dirVars, lockVars, debVars, file, fsVars, closeVars>>

\* a save_index_data that leaves index_update_lock right after the copy,
\* before it asks for the write lock
SaveCopyUnlocked(a) ==
    LET d == loc[a].d IN
    /\ pc[a] = "update_lock"
    /\ index_update_lock[d] = Free
    /\ loc' = [loc EXCEPT ![a].index_data = index_data[d]]
    /\ last_snapshot' = [last_snapshot EXCEPT ![d] = <<index_data[d]>>]
    /\ pc' = [pc EXCEPT ![a] = "write_lock"]
    /\ UNCHANGED <<dirVars, lockVars, debVars, file, fsVars, closer, late,
                   parserVars, err>>

\* with self.index_update_lock: index_data = copy.deepcopy(self.index_data)
SaveCopy(a) ==
    LET d == loc[a].d IN
    /\ pc[a] = "update_lock"
    /\ index_update_lock[d] = Free
    /\ index_update_lock' = [index_update_lock EXCEPT ![d] = a]
    /\ loc' = [loc EXCEPT ![a].index_data = index_data[d]]
    /\ last_snapshot' = [last_snapshot EXCEPT ![d] = <<index_data[d]>>]
    /\ pc' = [pc EXCEPT ![a] = "write_lock"]
    /\ UNCHANGED <<dirVars, index_write_lock, debVars, file, fsVars, closer, late,
                   parserVars, err>>

\* a save_index_data that leaves index_update_lock before the write on both paths
AlwaysReleasesUpdateLock(l) == TRUE

\* a save_index_data that keeps index_update_lock through the write
KeepsUpdateLock(l) == FALSE

\* whether the thread leaves index_update_lock once it has the write lock
ReleasesUpdateLock(l) == ~l.already

\* self.index_write_lock.acquire(), and the end of the with block around it
SaveAcquire(a) ==
    LET d == loc[a].d IN
    /\ pc[a] = "write_lock"
    /\ index_write_lock[d] = Free
    /\ index_write_lock' = [index_write_lock EXCEPT ![d] = a]
    /\ index_update_lock' = [index_update_lock EXCEPT ![d] =
                                 IF ReleasesUpdateLock(loc[a]) THEN Free ELSE @]
    /\ pc' = [pc EXCEPT ![a] = "open"]
    /\ UNCHANGED <<dirVars, debVars, loc, file, fsVars, closeVars, err>>

\* what open(self.index_path, "wb") leaves under index_path
Opened(f) == Truncated

\* open(self.index_path, "wb")
SaveOpen(a) ==
    LET d == loc[a].d IN
    /\ pc[a] = "open"
    /\ index_file' = [index_file EXCEPT ![d] = Opened(@)]
    /\ pc' = [pc EXCEPT ![a] = "write"]
    /\ UNCHANGED <<dstate, index_data, added_names, debouncer, debouncer_id,
                   lockVars, debVars, loc, file, fsVars, closeVars, err>>

\* index_data_file.write(index_content), the release of the write lock, and for
\* a caller that held index_update_lock the end of its locked block
SaveWrite(a) ==
    LET d == loc[a].d IN
    /\ pc[a] = "write"
    /\ index_file' = [index_file EXCEPT ![d] = Written(loc[a].index_data)]
    /\ index_write_lock' = [index_write_lock EXCEPT ![d] = Free]
    /\ IF loc[a].already
       THEN /\ index_update_lock' = [index_update_lock EXCEPT ![d] = Free]
            /\ AfterUpdate(a)
       ELSE /\ pc' = [pc EXCEPT ![a] = IF a = DebThread THEN "next" ELSE "idle"]
            /\ loc' = [loc EXCEPT ![a] = NoLoc]
            /\ UNCHANGED <<index_update_lock, file>>
    /\ UNCHANGED <<dstate, index_data, added_names, debouncer, debouncer_id,
                   debVars, fsVars, closeVars, err>>

(***************************************************************************)
(* Debouncer                                                               *)
(***************************************************************************)
\* a loop that tests self.running at the top and leaves without a last pass
TargetWithoutLastPass ==
    /\ pc[DebThread] = "top"
    /\ running_copy' = running
    /\ pc' = [pc EXCEPT ![DebThread] = IF running THEN "drain" ELSE "done"]
    /\ UNCHANGED <<dirVars, lockVars, directories, flags, running, lock,
                   directories_to_update, loc, file, fsVars, closeVars, err>>

\* target(): running = copy.copy(self.running) on a pass that saves
\* (now >= next_save or not running); a pass that only sleeps changes nothing
Target ==
    /\ pc[DebThread] = "top"
    /\ running_copy' = running
    /\ pc' = [pc EXCEPT ![DebThread] = "drain"]
    /\ UNCHANGED <<dirVars, lockVars, directories, flags, running, lock,
                   directories_to_update, loc, file, fsVars, closeVars, err>>

\* the directories whose flag is set, in the order of registration
Flagged(ds, fl) ==
    LET idx == {i \in 1..Len(fl) : fl[i]}
        F[i \in 0..Len(fl)] ==
            IF i = 0 THEN <<>>
            ELSE IF fl[i] THEN Append(F[i - 1], ds[i]) ELSE F[i - 1]
    IN  F[Len(fl)]

\* target(): with self.lock, the loop over the flags
Drain ==
    /\ pc[DebThread] = "drain"
    /\ lock = Free
    /\ lock' = DebThread
    /\ directories_to_update' = Flagged(directories, flags)
    /\ flags' = [i \in 1..Len(flags) |-> FALSE]
    /\ pc' = [pc EXCEPT ![DebThread] = "drained"]
    /\ UNCHANGED <<dirVars, lockVars, directories, running, running_copy, loc, file,
                   fsVars, closeVars, err>>

\* a target() that keeps Debouncer.lock while it saves the directories
DrainKeepsLock ==
    /\ pc[DebThread] = "drained"
    /\ pc' = [pc EXCEPT ![DebThread] = "next"]
    /\ UNCHANGED <<dirVars, lockVars, debVars, loc, file, fsVars, closeVars, err>>

\* target(): the end of the with block
DrainRelease ==
    /\ pc[DebThread] = "drained"
    /\ lock' = Free
    /\ pc' = [pc EXCEPT ![DebThread] = "next"]
    /\ UNCHANGED <<dirVars, lockVars, directories, flags, running, running_copy,
                   directories_to_update, loc, file, fsVars, closeVars, err>>

\* target(): the loop over directories_to_update, then the test of running
NextDirectory ==
    /\ pc[DebThread] = "next"
    /\ IF directories_to_update = <<>>
       THEN /\ pc' = [pc EXCEPT ![DebThread] = IF running_copy THEN "top" ELSE "done"]
            /\ UNCHANGED <<loc, directories_to_update>>
       ELSE /\ pc' = [pc EXCEPT ![DebThread] = "update_lock"]
            /\ loc' = [loc EXCEPT ![DebThread] =
                          [NoLoc EXCEPT !.op = "target",
                                        !.d = Head(directories_to_update)]]
            /\ directories_to_update' = Tail(directories_to_update)
    /\ UNCHANGED <<dirVars, lockVars, directories, flags, running, lock,
                   running_copy, file, fsVars, closeVars, err>>

\* Debouncer.close: self.running = False
DebouncerClose ==
    /\ closer = "idle"
    /\ DebouncerExists
    /\ running' = FALSE
    /\ closer' = "join"
    /\ late' = \E w \in Workers : Updating(w)
    /\ UNCHANGED <<dirVars, lockVars, directories, flags, lock, running_copy,
                   directories_to_update, pc, loc, file, fsVars, err, last_snapshot,
                   parserVars>>

\* Debouncer.close: self.worker.join() returns
DebouncerJoin ==
    /\ closer = "join"
    /\ pc[DebThread] = "done"
    /\ closer' = "returned"
    /\ UNCHANGED <<dirVars, lockVars, debVars, pc, loc, file, fsVars, err, late,
                   last_snapshot, parserVars>>

(***************************************************************************)
(* tree.py: the rules, the generator tasks() and copy_tree.                *)
(***************************************************************************)
MaxNodes == 4
MaxDepth == 2
MaxRules == 2

\* '.', and the '1' and '2' the sort key of tasks() puts before name_a name
Dot == 46
One == 49
Two == 50

\* the names "a", "b" and "a.x" of the source tree, and the other strings
\* of the rules, as the code points of their characters
name_a == <<97>>
name_b == <<98>>
name_a_x == <<97, 46, 120>>
name_b_y == <<98, 46, 121>>
dot_x == <<46, 120>>
dot_y == <<46, 121>>
dot_z == <<46, 122>>
NamePool == <<name_a, name_b, name_a_x>>

\* s < t for two str
RECURSIVE Before(_, _)
Before(s, t) ==
    IF t = <<>> THEN FALSE
    ELSE IF s = <<>> THEN TRUE
    ELSE IF s[1] # t[1] THEN s[1] < t[1]
    ELSE Before(Tail(s), Tail(t))

\* name.rfind("."), counted from 0, or -1
rfind(name, char) ==
    LET found == {i \in 0..(Len(name) - 1) : name[i + 1] = char}
    IN  IF found = {} THEN -1
        ELSE CHOOSE i \in found : \A j \in found : j <= i

\* pathlib: whether the last '.' of name_a name starts name_a suffix
HasSuffix(name) ==
    LET i == rfind(name, Dot) IN 0 < i /\ i < Len(name) - 1

\* pathlib.PurePath.suffix and pathlib.PurePath.stem of name_a name
suffix(name) ==
    IF HasSuffix(name) THEN SubSeq(name, rfind(name, Dot) + 1, Len(name)) ELSE <<>>
stem(name) ==
    IF HasSuffix(name) THEN SubSeq(name, 1, rfind(name, Dot)) ELSE name

\* source_relative_path.name
NameOf(source_path) == source_path[Len(source_path)]

\* the three classes of rules
Rename(match_relative_path, new_name) ==
    [type |-> "Rename", match_relative_path |-> match_relative_path,
     new_name |-> new_name]
RenameExtension(match_extension, new_extension) ==
    [type |-> "RenameExtension", match_extension |-> match_extension,
     new_extension |-> new_extension]
SkipName(match_name) == [type |-> "SkipName", match_name |-> match_name]

\* rule.match(source_relative_path)
match(rule, source_relative_path) ==
    CASE rule.type = "Rename" -> source_relative_path = rule.match_relative_path
      [] rule.type = "RenameExtension" ->
             suffix(NameOf(source_relative_path)) = rule.match_extension
      [] rule.type = "SkipName" -> NameOf(source_relative_path) = rule.match_name

\* name_a rule list none of whose rules skips
skips_nothing(rule) == FALSE

\* rule.skip()
skip(rule) == rule.type = "SkipName"

\* rule.rename(name)
rename(rule, name) ==
    CASE rule.type = "Rename" -> rule.new_name
      [] rule.type = "RenameExtension" -> stem(name) \o rule.new_extension
      [] rule.type = "SkipName" -> name

\* tasks(): for rule in rules, from target_name = node_source.name on
RECURSIVE ForRule(_, _, _)
ForRule(rule_list, source_relative_path, target_name) ==
    IF rule_list = <<>> THEN [skip |-> FALSE, target_name |-> target_name]
    ELSE LET rule == Head(rule_list) IN
         IF match(rule, source_relative_path)
         THEN IF skip(rule) THEN [skip |-> TRUE, target_name |-> target_name]
              ELSE ForRule(Tail(rule_list), source_relative_path,
                           rename(rule, target_name))
         ELSE ForRule(Tail(rule_list), source_relative_path, target_name)

\* the nodes of name_a source directory: per name of NamePool nothing, name_a file, or
\* name_a directory and its own nodes
NoNode == [kind |-> "absent"]
RegularFile == [kind |-> "file"]
SourceDirectory(nodes) == [kind |-> "dir", nodes |-> nodes]

\* the source directories that hold exactly n nodes, at most depth levels deep
RECURSIVE Forests(_, _, _)
Forests(k, n, depth) ==
    IF k = 0 THEN IF n = 0 THEN {<<>>} ELSE {}
    ELSE {<<NoNode>> \o f : f \in Forests(k - 1, n, depth)}
         \cup (IF n = 0 \/ depth = 0 THEN {}
               ELSE {<<RegularFile>> \o f : f \in Forests(k - 1, n - 1, depth)}
                    \cup UNION {{<<SourceDirectory(sub)>> \o f :
                                    sub \in Forests(Len(NamePool), m, depth - 1),
                                    f \in Forests(k - 1, n - 1 - m, depth)} :
                                m \in 0..(n - 1)})

SourceTrees == UNION {Forests(Len(NamePool), n, MaxDepth) : n \in 0..MaxNodes}

\* the nodes of the directory at name_a path of the source tree, the root at <<>>
RECURSIVE NodesAt(_, _)
NodesAt(nodes, source_path) ==
    IF source_path = <<>> THEN nodes
    ELSE LET i == CHOOSE i \in 1..Len(NamePool) : NamePool[i] = source_path[1]
         IN  NodesAt(nodes[i].nodes, Tail(source_path))

\* source.iterdir(), as name_a set
Children(tree, source_path) ==
    LET nodes == NodesAt(tree, source_path)
    IN  {NamePool[i] : i \in {i \in 1..Len(NamePool) : nodes[i].kind # "absent"}}

\* node_source.is_dir()
is_dir(tree, source_path) ==
    LET nodes == NodesAt(tree, SubSeq(source_path, 1, Len(source_path) - 1))
        i == CHOOSE i \in 1..Len(NamePool) : NamePool[i] = NameOf(source_path)
    IN  nodes[i].kind = "dir"

\* list(source.iterdir()): the nodes in whatever order the file system has
Listings(S) ==
    {l \in [1..Cardinality(S) -> S] : \A i, j \in 1..Cardinality(S) : l[i] = l[j] => i = j}

\* key=lambda node_source: f"1{name}" if node_source.is_dir() else f"2{name}"
sort_key(tree, source_path, name) ==
    IF is_dir(tree, Append(source_path, name)) THEN <<One>> \o name
    ELSE <<Two>> \o name

\* name_a listing left in the order the file system gave
unsorted(tree, source_path, listing) == listing

RECURSIVE InsertByKey(_, _, _, _)
InsertByKey(tree, source_path, sorted, name) ==
    IF sorted = <<>> THEN <<name>>
    ELSE IF Before(sort_key(tree, source_path, name),
                   sort_key(tree, source_path, sorted[Len(sorted)]))
    THEN Append(InsertByKey(tree, source_path,
                            SubSeq(sorted, 1, Len(sorted) - 1), name),
                sorted[Len(sorted)])
    ELSE Append(sorted, name)

\* node_sources.sort(key=...)
RECURSIVE sorted_by_key(_, _, _)
sorted_by_key(tree, source_path, listing) ==
    IF listing = <<>> THEN <<>>
    ELSE InsertByKey(tree, source_path,
                     sorted_by_key(tree, source_path,
                                   SubSeq(listing, 1, Len(listing) - 1)),
                     listing[Len(listing)])

\* Task(source, target_directory, target_name, index=0, total=0)
Task(source_path, target_directory, target_name) ==
    [source |-> source_path, target_directory |-> target_directory,
     target_name |-> target_name, index |-> 0, total |-> 0]

\* name_a call of tasks() that has not run yet
NewFrame(source_path, target) ==
    [at |-> "iterdir", source |-> source_path, target |-> target,
     node_sources |-> <<>>, node |-> 0, directories_nodes |-> <<>>, directory |-> 0]

\* copy_tree is not running
NoTree ==
    /\ source_tree = <<>>
    /\ rules = <<>>
    /\ stack = <<>>
    /\ tasks_list = <<>>
    /\ created = {}
    /\ handled = {}
    /\ copy_pc = "none"

\* copy_tree(source, target, rules, handle_task) is called, and the Directory
\* of target is made
CopyTreeCalled(tree, rule_list) ==
    /\ source_tree = tree
    /\ rules = rule_list
    /\ stack = <<NewFrame(<<>>, <<>>)>>
    /\ tasks_list = <<>>
    /\ created = {}
    /\ handled = {}
    /\ copy_pc = "tasks"

Top == stack[Len(stack)]
SetTop(frame) == [stack EXCEPT ![Len(stack)] = frame]

\* tasks(): node_sources = list(source.iterdir()) and its sort
Iterdir ==
    /\ copy_pc = "tasks"
    /\ Top.at = "iterdir"
    /\ \E listing \in Listings(Children(source_tree, Top.source)) :
          stack' = SetTop([Top EXCEPT
                              !.at = "nodes",
                              !.node_sources =
                                  sorted_by_key(source_tree, Top.source, listing)])
    /\ UNCHANGED <<storeVars, decodeVars, source_tree, rules, tasks_list, created,
                   handled, copy_pc>>

\* tasks(): one turn of `for node_source in node_sources`
VisitNode ==
    /\ copy_pc = "tasks"
    /\ Top.at = "nodes"
    /\ Top.node < Len(Top.node_sources)
    /\ LET name == Top.node_sources[Top.node + 1]
           node_source == Append(Top.source, name)
           outcome == ForRule(rules, node_source, name)
           next == [Top EXCEPT !.node = @ + 1]
       IN  IF outcome.skip
           THEN /\ stack' = SetTop(next)
                /\ UNCHANGED tasks_list
           ELSE IF is_dir(source_tree, node_source)
           THEN /\ stack' = SetTop([next EXCEPT !.directories_nodes =
                                       Append(@, <<node_source, outcome.target_name>>)])
                /\ UNCHANGED tasks_list
           ELSE /\ stack' = SetTop(next)
                /\ tasks_list' = Append(tasks_list,
                                        Task(node_source, Top.target, outcome.target_name))
    /\ UNCHANGED <<storeVars, decodeVars, source_tree, rules, created, handled, copy_pc>>

\* tasks(): one turn of `for node_source, target_name in directories_nodes`,
\* up to the call of tasks() on the subdirectory; create_subdirectory raises
\* for name_a name the target directory was given before
Recurse ==
    /\ copy_pc = "tasks"
    /\ Top.at = "nodes"
    /\ Top.node = Len(Top.node_sources)
    /\ Top.directory < Len(Top.directories_nodes)
    /\ LET node_source == Top.directories_nodes[Top.directory + 1][1]
           target_name == Top.directories_nodes[Top.directory + 1][2]
           target == Append(Top.target, target_name)
       IN  IF \E c \in created : c.target = target
           THEN /\ copy_pc' = "raised"
                /\ UNCHANGED <<stack, created>>
           ELSE /\ created' = created \cup {[source |-> node_source, target |-> target]}
                /\ stack' = Append(SetTop([Top EXCEPT !.directory = @ + 1]),
                                   NewFrame(node_source, target))
                /\ UNCHANGED copy_pc
    /\ UNCHANGED <<storeVars, decodeVars, source_tree, rules, tasks_list, handled>>

\* tasks(): the generator is exhausted; the outermost one ends list(tasks(...))
Return ==
    /\ copy_pc = "tasks"
    /\ Top.at = "nodes"
    /\ Top.node = Len(Top.node_sources)
    /\ Top.directory = Len(Top.directories_nodes)
    /\ stack' = SubSeq(stack, 1, Len(stack) - 1)
    /\ copy_pc' = IF Len(stack) = 1 THEN "stamp" ELSE copy_pc
    /\ UNCHANGED <<storeVars, decodeVars, source_tree, rules, tasks_list, created,
                   handled>>

\* tasks that keep the index and the total they were made with
unstamped(list) == list

\* copy_tree: for index, task in enumerate(tasks_list)
stamped(list) ==
    [i \in 1..Len(list) |-> [list[i] EXCEPT !.index = i - 1, !.total = Len(list)]]

Stamp ==
    /\ copy_pc = "stamp"
    /\ tasks_list' = stamped(tasks_list)
    /\ copy_pc' = "map"
    /\ UNCHANGED <<storeVars, decodeVars, source_tree, rules, stack, created, handled>>

\* pool.map: name_a thread of the pool begins handle_task(task)
HandleTask ==
    /\ copy_pc = "map"
    /\ \E i \in 1..Len(tasks_list) :
          /\ tasks_list[i].index \notin handled
          /\ handled' = handled \cup {tasks_list[i].index}
    /\ UNCHANGED <<storeVars, decodeVars, source_tree, rules, stack, tasks_list,
                   created, copy_pc>>

\* pool.map returns once every task was handled, and copy_tree after it
MapReturn ==
    /\ copy_pc = "map"
    /\ \A i \in 1..Len(tasks_list) : tasks_list[i].index \in handled
    /\ copy_pc' = "returned"
    /\ UNCHANGED <<storeVars, decodeVars, source_tree, rules, stack, tasks_list,
                   created, handled>>

\* the rules copy_tree is called with
RenameRules ==
    {Rename(<<name_a_x>>, name_b_y), Rename(<<name_a_x>>, name_a), Rename(<<name_a>>, name_b),
     RenameExtension(dot_x, dot_y), RenameExtension(dot_x, dot_z)}
SkipRules == {SkipName(name_a_x), SkipName(name_b)}
RulePool == RenameRules \cup SkipRules

RuleLists ==
    UNION {[1..n -> RulePool] : n \in 0..MaxRules}
        \cup {<<r1, s, r2>> : r1 \in RenameRules, s \in SkipRules, r2 \in RenameRules}

(***************************************************************************)
(* parsers.py: the bytes of an .aedat file.                                *)
(***************************************************************************)
MaxHeaderLen == 4
MaxApsRecords == 6
MaxGroups == 2
MaxMixed == 3
MaxTimed == 3

\* data[index] == 35: '#', the first byte of a header line
HashByte == 35
\* b"\n"
Newline == 10
\* a byte of header text, and a byte that is not ASCII
Letter == 65
NonAscii == 200
\* bytes.isascii(): every byte is below 128
AsciiEnd == 128
HeaderAlphabet == {HashByte, Newline, Letter, NonAscii}

\* the fields of an Aerdat2 that were not assigned; an array the decoder
\* assigns is never empty, and neither is the header it keeps
None == <<>>

\* data[a:b] of a sequence of bytes, a and b counted from 0
Slice(data, a, b) == SubSeq(data, a + 1, b)

isascii(bytes) == \A i \in 1..Len(bytes) : bytes[i] < AsciiEnd

\* bytes.decode(): the characters of the bytes, or the error of a byte that
\* is no character on its own
decode(bytes) ==
    IF isascii(bytes)
    THEN [error |-> "none", str |-> [i \in 1..Len(bytes) |-> [chr |-> bytes[i]]]]
    ELSE [error |-> "UnicodeDecodeError", str |-> <<>>]

\* a find that takes the end of the data for a terminator
FindOrEnd(data, byte, start) ==
    LET found == {j \in start..(Len(data) - 1) : data[j + 1] = byte}
    IN  IF found = {} THEN Len(data)
        ELSE CHOOSE j \in found : \A k \in found : j <= k

\* data.find(b"\n", start): the first position from start on (counted from
\* 0) that holds byte, or -1
find(data, byte, start) ==
    LET found == {j \in start..(Len(data) - 1) : data[j + 1] = byte}
    IN  IF found = {} THEN -1
        ELSE CHOOSE j \in found : \A k \in found : j <= k

\* a test for the end of the header that also takes a '#' line without a
\* terminator for it
AtEndOrUnterminated(data, index) ==
    IF index >= Len(data) THEN TRUE
    ELSE data[index + 1] = HashByte /\ find(data, Newline, index + 1) = -1

\* read_aerdat_header: if index >= len(data)
AtEnd(data, index) == index >= Len(data)

(***************************************************************************)
(* parsers.py: the 8-byte records of a gen-2 file.                         *)
(***************************************************************************)
RecordBytes == 8
Width == 240
Height == 180
ImuSlots == 7

\* numpy.right_shift(n, k), and numpy.bitwise_and(n, 2^k - 1)
Shr(n, k) == n \div (2 ^ k)
Low(n, k) == n % (2 ^ k)
\* the bits of n from bit a (included) to bit b (excluded), shifted down
BitsOf(n, a, b) == Shr(Low(n, b), a)

\* dtype ">u4": four bytes, the most significant first
BigEndian(b) == ((b[1] * 256 + b[2]) * 256 + b[3]) * 256 + b[4]

\* numpy.frombuffer(data, dtype=[d0, d1, d2, d3, t]) after
\* data[: (len(data) // 8) * 8]
frombuffer(data) ==
    [i \in 1..(Len(data) \div RecordBytes) |->
        LET o == (i - 1) * RecordBytes IN
        [d0 |-> data[o + 1], d1 |-> data[o + 2], d2 |-> data[o + 3],
         d3 |-> data[o + 4], t |-> BigEndian(SubSeq(data, o + 5, o + 8))]]

extract_x(r) == BitsOf(r.d1, 0, 6) * 16 + Shr(r.d2, 4)
extract_y(r) == BitsOf(r.d0, 0, 7) * 4 + Shr(r.d1, 6)

\* numpy.bitwise_and(d2, 0b1100), shifted down: 0 reset, 1 signal, 3 IMU
Kind(r) == BitsOf(r.d2, 2, 4)
Reset == 0
Signal == 1
OtherKind == 2
ImuKind == 3

dvs_mask(r) == Shr(r.d0, 7) = 0
aps_mask(r) == ~dvs_mask(r) /\ Kind(r) # ImuKind
imu_mask(r) == ~dvs_mask(r) /\ ~aps_mask(r)

\* events["p"]: bit 3 of d2 down to bit 0, or bit 2 of d2 down to bit 1
Polarity(r) == BitsOf(r.d2, 3, 4) + 2 * BitsOf(r.d2, 2, 3)

aps_sample(r) == BitsOf(r.d2, 0, 2) * 256 + r.d3

\* types, samples of the IMU records
TypeOf(r) == BitsOf(r.d0, 4, 7)
SampleOf(r) == BitsOf(r.d0, 0, 4) * 4096 + r.d1 * 16 + Shr(r.d2, 4)

\* what a camera writes: the records that decode to the given fields
DvsRecord(x, y, p, t) ==
    [d0 |-> y \div 4, d1 |-> (y % 4) * 64 + x \div 16,
     d2 |-> (x % 16) * 16 + (p % 2) * 8 + (p \div 2) * 4, d3 |-> 0, t |-> t]

ApsRecord(x, y, kind, sample, t) ==
    [d0 |-> 128 + y \div 4, d1 |-> (y % 4) * 64 + x \div 16,
     d2 |-> (x % 16) * 16 + kind * 4 + sample \div 256, d3 |-> sample % 256,
     t |-> t]

ImuRecord(type, value, t) ==
    [d0 |-> 128 + type * 16 + value \div 4096, d1 |-> (value \div 16) % 256,
     d2 |-> (value % 16) * 16 + ImuKind * 4, d3 |-> 0, t |-> t]

ToBytes(r) ==
    <<r.d0, r.d1, r.d2, r.d3, r.t \div (256 * 256 * 256), (r.t \div (256 * 256)) % 256,
      (r.t \div 256) % 256, r.t % 256>>

RECURSIVE FileOf(_)
FileOf(records) ==
    IF records = <<>> THEN <<>>
    ELSE ToBytes(Head(records)) \o FileOf(Tail(records))

\* a sort by timestamp alone that keeps records of one timestamp in the order
\* they came in
RECURSIVE InsertByT(_, _)
InsertByT(sorted, r) ==
    IF sorted = <<>> THEN <<r>>
    ELSE IF sorted[Len(sorted)].t <= r.t THEN Append(sorted, r)
    ELSE Append(InsertByT(SubSeq(sorted, 1, Len(sorted) - 1), r), sorted[Len(sorted)])

RECURSIVE SortByT(_)
SortByT(records) ==
    IF records = <<>> THEN <<>>
    ELSE InsertByT(SortByT(SubSeq(records, 1, Len(records) - 1)), records[Len(records)])

\* the order numpy.sort compares records of a structured dtype in: the fields
\* of order first, then the other fields in the order of the dtype, which
\* break the ties of the first
SortKey(r) == <<r.t, r.d0, r.d1, r.d2, r.d3>>

\* whether key a comes before key b, field by field
RECURSIVE KeyBefore(_, _)
KeyBefore(a, b) ==
    IF a = <<>> THEN FALSE
    ELSE IF Head(a) # Head(b) THEN Head(a) < Head(b)
    ELSE KeyBefore(Tail(a), Tail(b))

RECURSIVE InsertSorted(_, _)
InsertSorted(sorted, r) ==
    IF sorted = <<>> THEN <<r>>
    ELSE IF ~KeyBefore(SortKey(r), SortKey(sorted[Len(sorted)])) THEN Append(sorted, r)
    ELSE Append(InsertSorted(SubSeq(sorted, 1, Len(sorted) - 1), r), sorted[Len(sorted)])

\* numpy.sort(parsed_data, order=["t"], kind="stable")
RECURSIVE sort(_)
sort(records) ==
    IF records = <<>> THEN <<>>
    ELSE InsertSorted(sort(SubSeq(records, 1, Len(records) - 1)), records[Len(records)])

\* a test that finds every file in order
NeverDecreases(records) == FALSE

\* numpy.count_nonzero(numpy.diff(t) < 0) > 0
Decreases(records) ==
    \E i \in 1..(Len(records) - 1) : records[i + 1].t < records[i].t

\* the elements of a set of numbers in increasing order
RECURSIVE Ascending(_)
Ascending(S) ==
    IF S = {} THEN <<>>
    ELSE LET m == CHOOSE x \in S : \A y \in S : x <= y
         IN  <<m>> \o Ascending(S \ {m})

(***************************************************************************)
(* read_aerdat_header and read_aerdat2                                     *)
(***************************************************************************)
\* Aerdat2(header=None, dvs=None, aps=None, imu=None, aps_corrupted=False,
\* imu_corrupted=False)
NewAerdat2 ==
    [header |-> None, dvs |-> None, aps |-> None, imu |-> None,
     aps_corrupted |-> FALSE, imu_corrupted |-> FALSE]

\* the pixels of current_frame the records of this model address
FramePixels == {<<0, 0>>, <<1, 0>>}

\* numpy.zeros((240, 180), dtype="<u2")
ZeroFrame == [p \in FramePixels |-> 0]

\* the local variables of a call, before it runs
NoCall ==
    [pc |-> "none", caller |-> "read_aerdat2", input |-> <<>>, index |-> 0, header |-> <<>>,
     exception |-> "none", t_frames |-> <<>>, current_frame |-> ZeroFrame,
     first_reset |-> -1, last_reset |-> -1, first_signal |-> -1, last_signal |-> -1]

\* Aerdat1(header=None, dvs=None)
NewAerdat1 == [header |-> None, dvs |-> None]

\* no file is being decoded
NoParse ==
    /\ file_data = <<>>
    /\ parsed_data = <<>>
    /\ aedat2 = NewAerdat2
    /\ aerdat1 = NewAerdat1
    /\ local = NoCall
    /\ NoTree

\* read_aerdat2(path) is called on a file that holds input
Called(input) ==
    /\ file_data = input
    /\ parsed_data = <<>>
    /\ aedat2 = NewAerdat2
    /\ aerdat1 = NewAerdat1
    /\ local = [NoCall EXCEPT !.pc = "header", !.input = input]
    /\ NoTree

\* read_aerdat1(path) is called on a file that holds input
Called1(input) ==
    /\ file_data = input
    /\ parsed_data = <<>>
    /\ aedat2 = NewAerdat2
    /\ aerdat1 = NewAerdat1
    /\ local = [NoCall EXCEPT !.pc = "header", !.caller = "read_aerdat1",
                              !.input = input]
    /\ NoTree

\* read_aerdat_header: a '#' line with its terminator, all ASCII
HeaderLine ==
    LET index == local.index
        line_end == find(file_data, Newline, index + 1)
    IN  /\ local.pc = "header"
        /\ ~AtEnd(file_data, index)
        /\ file_data[index + 1] = HashByte
        /\ line_end # -1
        /\ isascii(Slice(file_data, index, line_end))
        /\ local' = [local EXCEPT !.index = line_end + 1]
        /\ UNCHANGED <<storeVars, restVars, file_data, parsed_data, aedat2>>

\* read_aerdat_header: one of the three break statements, the return, and
\* in read_aerdat2 `if len(header) > 0` and the cut to whole records
HeaderBreak ==
    LET index == local.index
        line_end == find(file_data, Newline, index + 1)
        header == decode(Slice(file_data, 0, index))
        rest == Slice(file_data, index, Len(file_data))
    IN  /\ local.pc = "header"
        /\ local.caller = "read_aerdat2"
        /\ ~AtEnd(file_data, index)
        /\ \/ file_data[index + 1] # HashByte
           \/ line_end = -1
           \/ ~isascii(Slice(file_data, index, line_end))
        /\ IF header.error # "none"
           THEN /\ local' = [local EXCEPT !.pc = "raised", !.exception = header.error]
                /\ UNCHANGED <<file_data, aedat2>>
           ELSE /\ local' = [local EXCEPT !.pc = "frombuffer", !.header = header.str]
                /\ aedat2' = [aedat2 EXCEPT !.header =
                                  IF Len(header.str) > 0 THEN header.str ELSE @]
                /\ file_data' = Slice(rest, 0, (Len(rest) \div RecordBytes) * RecordBytes)
        /\ UNCHANGED <<storeVars, restVars, parsed_data>>

\* read_aerdat_header: raise IncompleteHeader()
HeaderEOF ==
    /\ local.pc = "header"
    /\ AtEnd(file_data, local.index)
    /\ local' = [local EXCEPT !.pc = "raised", !.exception = "IncompleteHeader"]
    /\ UNCHANGED <<storeVars, restVars, file_data, parsed_data, aedat2>>

\* read_aerdat2: numpy.frombuffer
Frombuffer ==
    /\ local.pc = "frombuffer"
    /\ parsed_data' = frombuffer(file_data)
    /\ local' = [local EXCEPT !.pc = "sort"]
    /\ UNCHANGED <<storeVars, restVars, file_data, aedat2>>

\* read_aerdat2: the stable sort of records whose timestamps go down
Sort ==
    /\ local.pc = "sort"
    /\ parsed_data' = IF Decreases(parsed_data) THEN sort(parsed_data)
                      ELSE parsed_data
    /\ local' = [local EXCEPT !.pc = "dvs"]
    /\ UNCHANGED <<storeVars, restVars, file_data, aedat2>>

\* read_aerdat2: the polarity events
Dvs ==
    LET dvs_data == SelectSeq(parsed_data, dvs_mask)
        events == [i \in 1..Len(dvs_data) |->
                      [t |-> dvs_data[i].t, x |-> extract_x(dvs_data[i]),
                       y |-> extract_y(dvs_data[i]), p |-> Polarity(dvs_data[i])]]
    IN  /\ local.pc = "dvs"
        /\ aedat2' = [aedat2 EXCEPT !.dvs = IF Len(dvs_data) > 0 THEN events ELSE @]
        /\ local' = [local EXCEPT !.pc = "aps"]
        /\ UNCHANGED <<storeVars, restVars, file_data, parsed_data>>

\* a decoder that reconstructs frames whatever the records are
ApsAlways(records) == TRUE

\* read_aerdat2: if numpy.count_nonzero(aps_mask) > 0
ApsGuard(records) == Len(SelectSeq(records, aps_mask)) > 0

\* read_aerdat2: what is set before the loop over the frame records
ApsBegin ==
    /\ local.pc = "aps"
    /\ local' = IF ApsGuard(parsed_data)
                THEN [local EXCEPT !.pc = "aps_loop", !.index = 0]
                ELSE [local EXCEPT !.pc = "imu"]
    /\ UNCHANGED <<storeVars, restVars, file_data, parsed_data, aedat2>>

\* a loop that starts a frame at every reset
StartsFrameAnywhere(x, y) == TRUE

\* read_aerdat2: if x == 0 and y == 0
StartsFrame(x, y) == x = 0 /\ y = 0

\* the four timestamps of a frame are set
Timed(l) ==
    /\ l.first_reset # -1
    /\ l.last_reset # -1
    /\ l.first_signal # -1
    /\ l.last_signal # -1

\* the array current_frame itself, kept in a tuple: it shows what the array
\* holds when it is read; at_append is what it held when it was kept
Shared(frame) == [shared |-> TRUE, at_append |-> frame]

\* numpy.copy(current_frame)
copy(frame) == [shared |-> FALSE, at_append |-> frame]

\* what a kept frame shows once the array holds current_frame
Read(pixels, current_frame) ==
    IF pixels.shared THEN current_frame ELSE pixels.at_append

\* the tuple t_frames.append takes
Frame(l, pixels) ==
    [pixels |-> pixels, first_reset |-> l.first_reset,
     last_reset |-> l.last_reset, first_signal |-> l.first_signal,
     last_signal |-> l.last_signal]

\* the values of a "<u2"
U2 == 65536

\* a read-out that subtracts without looking at the sign of the difference
luma_wrapped(luma, sample) == (luma - sample) % U2

\* read_aerdat2: luma = 0 if sample > luma, else luma -= sample, in "<u2"
luma_after(luma, sample) == IF sample > luma THEN 0 ELSE (luma - sample) % U2

\* read_aerdat2: the body of `for index in range(0, len(aps_data))`
ApsBody(l, r) ==
    LET x == extract_x(r)
        y == extract_y(r)
        sample == aps_sample(r)
    IN  IF ~(x < Width /\ y < Height) THEN l
        ELSE IF Kind(r) = Reset
        THEN LET s == [l EXCEPT !.first_reset = IF @ = -1 THEN r.t ELSE @]
             IN  IF StartsFrame(x, y)
                 THEN [s EXCEPT !.t_frames = IF Timed(s)
                                             THEN Append(@, Frame(s, copy(s.current_frame)))
                                             ELSE @,
                                !.current_frame = [ZeroFrame EXCEPT ![<<x, y>>] = sample],
                                !.first_reset = r.t,
                                !.last_reset = -1,
                                !.first_signal = -1,
                                !.last_signal = -1]
                 ELSE [s EXCEPT !.last_reset = r.t,
                                !.current_frame[<<x, y>>] = sample]
        ELSE IF Kind(r) = Signal
        THEN [l EXCEPT !.first_signal = IF @ = -1 THEN r.t ELSE @,
                       !.last_signal = r.t,
                       !.current_frame[<<x, y>>] = luma_after(@, sample)]
        ELSE l

ApsRecordStep ==
    LET aps_data == SelectSeq(parsed_data, aps_mask) IN
    /\ local.pc = "aps_loop"
    /\ local.index < Len(aps_data)
    /\ local' = [ApsBody(local, aps_data[local.index + 1]) EXCEPT !.index = @ + 1]
    /\ UNCHANGED <<storeVars, restVars, file_data, parsed_data, aedat2>>

\* an entry of aedat2.aps
ApsFrame(f, current_frame) ==
    [t |-> f.first_signal, begin_t |-> f.first_reset, end_t |-> f.first_signal,
     exposure_begin_t |-> f.last_reset, exposure_end_t |-> f.last_signal,
     width |-> Width, height |-> Height, pixels |-> Read(f.pixels, current_frame)]

\* read_aerdat2: after the loop, the frame that was being read and the array
ApsEnd ==
    LET aps_data == SelectSeq(parsed_data, aps_mask)
        t_frames == IF Timed(local)
                    THEN Append(local.t_frames,
                                Frame(local, Shared(local.current_frame)))
                    ELSE local.t_frames
    IN  /\ local.pc = "aps_loop"
        /\ local.index = Len(aps_data)
        /\ aedat2' = IF Len(t_frames) = 0
                     THEN [aedat2 EXCEPT !.aps_corrupted = TRUE]
                     ELSE [aedat2 EXCEPT !.aps =
                              [i \in 1..Len(t_frames) |->
                                  ApsFrame(t_frames[i], local.current_frame)]]
        /\ local' = [local EXCEPT !.pc = "imu", !.t_frames = t_frames]
        /\ UNCHANGED <<storeVars, restVars, file_data, parsed_data>>

\* numpy.unique(imu_data["t"], return_index=True, return_counts=True)
Timestamps(imu_data) == {imu_data[i].t : i \in 1..Len(imu_data)}
Members(imu_data, t) == {i \in 1..Len(imu_data) : imu_data[i].t = t}
\* indices, counted from 0
IndexOf(imu_data, t) ==
    (CHOOSE i \in Members(imu_data, t) : \A j \in Members(imu_data, t) : i <= j) - 1
Count(imu_data, t) == Cardinality(Members(imu_data, t))

\* timestamps[unique_mask]
Complete(imu_data) ==
    Ascending({t \in Timestamps(imu_data) : Count(imu_data, t) = ImuSlots})

\* a check that takes the seven tags of a group in any order
TypesCover(imu_data, boundary_indices) ==
    \A k \in 1..Len(boundary_indices) :
        {TypeOf(imu_data[boundary_indices[k] + offset + 1]) : offset \in 0..(ImuSlots - 1)}
            = 0..(ImuSlots - 1)

\* numpy.all(types[boundary_indices + offset] == offset), for each offset
TypesMatch(imu_data, boundary_indices) ==
    \A offset \in 0..(ImuSlots - 1) :
        \A k \in 1..Len(boundary_indices) :
            TypeOf(imu_data[boundary_indices[k] + offset + 1]) = offset

\* an entry of aedat2.imu
ImuSample(imu_data, t, b) ==
    [t |-> t,
     accelerometer_x |-> SampleOf(imu_data[b + 1]),
     accelerometer_y |-> SampleOf(imu_data[b + 2]),
     accelerometer_z |-> SampleOf(imu_data[b + 3]),
     temperature |-> SampleOf(imu_data[b + 4]),
     gyroscope_x |-> SampleOf(imu_data[b + 5]),
     gyroscope_y |-> SampleOf(imu_data[b + 6]),
     gyroscope_z |-> SampleOf(imu_data[b + 7])]

\* a reconstruction that keeps the groups that pass and flags the others
ReconstructEachGroup(imu_data, timestamps) ==
    LET good == SelectSeq(timestamps,
                    LAMBDA t : TypesMatch(imu_data, <<IndexOf(imu_data, t)>>))
    IN  [imu |-> [k \in 1..Len(good) |->
                     ImuSample(imu_data, good[k], IndexOf(imu_data, good[k]))],
         imu_corrupted |-> Len(good) # Len(timestamps)]

\* read_aerdat2: what is done with the groups of seven
Reconstruct(imu_data, timestamps) ==
    LET boundary_indices == [k \in 1..Len(timestamps) |-> IndexOf(imu_data, timestamps[k])]
    IN  IF TypesMatch(imu_data, boundary_indices)
        THEN [imu |-> [k \in 1..Len(timestamps) |->
                          ImuSample(imu_data, timestamps[k], boundary_indices[k])],
              imu_corrupted |-> FALSE]
        ELSE [imu |-> None, imu_corrupted |-> TRUE]

\* read_aerdat2: the inertial samples, and return aedat2
Imu ==
    LET imu_data == SelectSeq(parsed_data, imu_mask)
        timestamps == Complete(imu_data)
    IN  /\ local.pc = "imu"
        /\ aedat2' = IF Len(imu_data) > 0 /\ Len(timestamps) > 0
                     THEN LET result == Reconstruct(imu_data, timestamps)
                          IN  [aedat2 EXCEPT !.imu = result.imu,
                                             !.imu_corrupted = result.imu_corrupted]
                     ELSE aedat2
        /\ local' = [local EXCEPT !.pc = "returned"]
        /\ UNCHANGED <<storeVars, restVars, file_data, parsed_data>>

(***************************************************************************)
(* read_aerdat1: the 6-byte records of a gen-1 file.                       *)
(***************************************************************************)
Record1Bytes == 6
XMax == 127

\* the values of a "u1"
U1 == 256

\* numpy.frombuffer(data, dtype=[d0, d1, t]) after data[: (len(data) // 6) * 6]
frombuffer1(data) ==
    [i \in 1..(Len(data) \div Record1Bytes) |->
        LET o == (i - 1) * Record1Bytes IN
        [d0 |-> data[o + 1], d1 |-> data[o + 2],
         t |-> BigEndian(SubSeq(data, o + 3, o + 6))]]

\* a column taken from d1 as it is
dvs_x_unshifted(r) == (XMax - r.d1) % U1

\* aerdat1.dvs["x"]: the difference is a "u1" like d1, which wraps around
dvs_x(r) == (XMax - Shr(r.d1, 1)) % U1

\* aerdat1.dvs["y"]
dvs_y(r) == Low(r.d0, 7)

\* a polarity that is bit 0 of d1 and nothing else
dvs_p_one_bit(r) == Low(r.d1, 1)

\* aerdat1.dvs["p"]: bit 7 of d0 down to bit 1, or bit 0 of d1
dvs_p(r) == Shr(BitsOf(r.d0, 7, 8) * 128, 6) + Low(r.d1, 1)

\* read_aerdat_header: one of the three break statements, the return, and
\* in read_aerdat1 `if len(header) > 0` and the cut to whole records
HeaderBreak1 ==
    LET index == local.index
        line_end == find(file_data, Newline, index + 1)
        header == decode(Slice(file_data, 0, index))
        rest == Slice(file_data, index, Len(file_data))
    IN  /\ local.pc = "header"
        /\ local.caller = "read_aerdat1"
        /\ ~AtEnd(file_data, index)
        /\ \/ file_data[index + 1] # HashByte
           \/ line_end = -1
           \/ ~isascii(Slice(file_data, index, line_end))
        /\ IF header.error # "none"
           THEN /\ local' = [local EXCEPT !.pc = "raised", !.exception = header.error]
                /\ UNCHANGED <<file_data, aerdat1>>
           ELSE /\ local' = [local EXCEPT !.pc = "dvs1", !.header = header.str]
                /\ aerdat1' = [aerdat1 EXCEPT !.header =
                                   IF Len(header.str) > 0 THEN header.str ELSE @]
                /\ file_data' = Slice(rest, 0, (Len(rest) \div Record1Bytes) * Record1Bytes)
        /\ UNCHANGED <<storeVars, treeVars, parsed_data, aedat2>>

\* read_aerdat1: if len(data) > 0, the records and the events made of them
Dvs1 ==
    LET records == frombuffer1(file_data)
        events == [i \in 1..Len(records) |->
                      [t |-> records[i].t, x |-> dvs_x(records[i]),
                       y |-> dvs_y(records[i]), p |-> dvs_p(records[i])]]
    IN  /\ local.pc = "dvs1"
        /\ IF Len(file_data) > 0
           THEN /\ parsed_data' = records
                /\ aerdat1' = [aerdat1 EXCEPT !.dvs = events]
           ELSE UNCHANGED <<parsed_data, aerdat1>>
        /\ local' = [local EXCEPT !.pc = "returned"]
        /\ UNCHANGED <<storeVars, treeVars, file_data, aedat2>>

(***************************************************************************)
(* The files read_aerdat2 is called on.                                    *)
(***************************************************************************)
SeqsUpTo(S, n) == UNION {[1..k -> S] : k \in 0..n}

HeaderInputs == SeqsUpTo(HeaderAlphabet, MaxHeaderLen)

\* the sample a reset and a signal record carry
ResetSample == 5
SignalSample == 3

ApsShapes == FramePixels \X {Reset, Signal}

\* frame records, one per shape, with timestamps 1, 2, ...
ApsStream(shapes) ==
    [i \in 1..Len(shapes) |->
        ApsRecord(shapes[i][1][1], shapes[i][1][2], shapes[i][2],
                  IF shapes[i][2] = Reset THEN ResetSample ELSE SignalSample, i)]

ApsStreams == {ApsStream(s) : s \in SeqsUpTo(ApsShapes, MaxApsRecords)}

\* the inertial records of timestamp g, with the given type tags
Group(tags, g) == [i \in 1..Len(tags) |-> ImuRecord(tags[i], 10 * g + i, g)]

InOrder == [i \in 1..ImuSlots |-> i - 1]

\* one group of seven, its tags in every order
OneGroupStreams ==
    {Group([i \in 1..ImuSlots |-> f[i - 1]], 1) : f \in Permutations(0..(ImuSlots - 1))}

\* groups in slot order, with two tags exchanged, with a tag twice and one
\* missing, with six members and with eight
GroupShapes ==
    {InOrder,
     [InOrder EXCEPT ![1] = 1, ![2] = 0],
     [InOrder EXCEPT ![ImuSlots] = ImuSlots - 2],
     SubSeq(InOrder, 1, ImuSlots - 1),
     Append(InOrder, 0)}

RECURSIVE Groups(_, _)
Groups(shapes, g) ==
    IF shapes = <<>> THEN <<>>
    ELSE Group(Head(shapes), g) \o Groups(Tail(shapes), g + 1)

GroupStreams == {Groups(s, 1) : s \in SeqsUpTo(GroupShapes, MaxGroups)}

\* the row of a polarity event whose first byte is '#'
HashRow == 140

\* a polarity event, one whose record begins with '#', a frame record outside
\* the sensor, a frame record that is neither reset nor signal, a frame record
\* and an inertial record
MixedShapes ==
    {DvsRecord(3, 2, 1, 0), DvsRecord(3, HashRow, 1, 0),
     ApsRecord(Width, 0, Reset, ResetSample, 0),
     ApsRecord(0, 0, OtherKind, ResetSample, 0), ApsRecord(1, 0, Reset, ResetSample, 0),
     ImuRecord(0, 7, 0)}

\* two polarity events with other low bits of d2, frame records of the marker
\* pixel and of another, and a frame record outside the sensor
TimedShapes ==
    {DvsRecord(3, 2, 0, 0), DvsRecord(3, 2, 2, 0),
     ApsRecord(0, 0, Reset, ResetSample, 0), ApsRecord(1, 0, Reset, ResetSample, 0),
     ApsRecord(1, 0, Signal, SignalSample, 0), ApsRecord(0, Height, Reset, ResetSample, 0)}

Times == {1, 2}

\* the samples of the records of SampleStreams: the ends of the ten bits
MaxSamples == 3
SampleMax == 1023
Samples == {0, 1, SampleMax}

\* resets and signals of one pixel with any of these samples, and a reset
\* and a signal outside the sensor, with timestamps 1, 2, ...
SampleShapes ==
    {ApsRecord(1, 0, kind, sample, 0) : kind \in {Reset, Signal}, sample \in Samples}
        \cup {ApsRecord(Width, 0, Reset, SampleMax, 0),
              ApsRecord(1, Height, Signal, SampleMax, 0)}

SampleStreams ==
    {[i \in 1..Len(s) |-> [s[i] EXCEPT !.t = i]] :
        s \in SeqsUpTo(SampleShapes, MaxSamples)}

\* any of them, each with any of the timestamps
TimedStreams ==
    {[i \in 1..Len(s) |-> [s[i][1] EXCEPT !.t = s[i][2]]] :
        s \in SeqsUpTo(TimedShapes \X Times, MaxTimed)}

\* any of them, their timestamps going up or down
MixedStreams ==
    {[i \in 1..Len(s) |-> [s[i] EXCEPT !.t = IF up THEN i ELSE Len(s) + 1 - i]] :
        s \in SeqsUpTo(MixedShapes, MaxMixed), up \in BOOLEAN}

Inputs ==
    HeaderInputs
        \cup {FileOf(s) : s \in ApsStreams \cup OneGroupStreams \cup GroupStreams
                                \cup TimedStreams \cup SampleStreams}
        \cup {h \o FileOf(s) \o tail :
                 h \in {<<>>, <<HashByte, Letter, Newline>>},
                 s \in MixedStreams,
                 tail \in {<<>>, <<Letter>>}}

\* the files read_aerdat1 is called on: one record for every pair of bytes
\* d0, d1; records with the bytes of t taken from both ends of a byte (the
\* first from the lower half, for t to stay below 2^31); and files with or
\* without a header whose records end anywhere
ByteValues == 0..(U1 - 1)
EndBytes == {0, 1, U1 - 1}
LowEndBytes == {0, 1, U1 \div 2 - 1}
MaxPayload == 13

Record1(d0, d1, t) == <<d0, d1, t[1], t[2], t[3], t[4]>>

Inputs1 ==
    {Record1(d0, d1, <<0, 0, 0, 1>>) : d0 \in ByteValues, d1 \in ByteValues}
        \cup {Record1(0, 0, <<t1>> \o t) : t1 \in LowEndBytes, t \in [1..3 -> EndBytes]}
        \cup {h \o [i \in 1..n |-> (i * i) % U1] :
                 h \in {<<>>, <<HashByte, Letter, Newline>>}, n \in 0..MaxPayload}

\* one polarity record of a gen-2 file for every value of d2
PolarityInputs == {FileOf(<<[d0 |-> 0, d1 |-> 0, d2 |-> d2, d3 |-> 0, t |-> 1]>>) :
                      d2 \in ByteValues}

(***************************************************************************)
(* Specifications.                                                         *)
(***************************************************************************)
\* the store as StoreInit leaves it, and no file being decoded
InitWith(deb, pool, manifests) == StoreInit(deb, pool, manifests) /\ NoParse

Keys == {"files", "other_files"}

WriteStep ==
    \E w \in Workers, data \in Chunks, k \in 0..MaxWrites : WriteRaw(w, data, k)

\* file tasks, with the files created in dirs under names and in the lists keys
FileStep(dirs, names, keys) ==
    \E w \in Workers :
        \/ \E d \in dirs, name \in names, key \in keys : CreateFile(w, d, name, key)
        \/ Close(w)
        \/ CloseRename(w)
        \/ UpdateIndex(w)
        \/ Release(w)

\* create_subdirectory calls on the root with a name from names, the child
\* given a debouncer from debs
SubdirectoryStep(names, debs) ==
    \E w \in Workers :
        \/ \E name \in names, deb \in debs : CreateSubdirectory(w, Root, name, deb)
        \/ CreateChild(w)

DirectSaveStep ==
    \E w \in Workers : SaveIndexData(w, Root)

SaveCopyStep ==
    \E a \in Agents : SaveCopy(a)

SaveStep ==
    \E a \in Agents : SaveAcquire(a) \/ SaveOpen(a) \/ SaveWrite(a)

DebouncerStep ==
    \/ \E a \in Agents : Set(a)
    \/ Target
    \/ Drain
    \/ DrainRelease
    \/ NextDirectory
    \/ DebouncerClose
    \/ DebouncerJoin

\* the manifest of an earlier run that left one typed file and one other file
StoreManifests == {Doc(<<>>, <<OldEntry(1)>>, <<OldEntry(2)>>)}

\* Spec: typed files written and closed in the root by a pool of workers, no
\* Debouncer: every close saves the manifest itself
Init == InitWith(FALSE, Workers, StoreManifests)

Next == WriteStep \/ FileStep({Root}, Names, {"files"}) \/ SaveStep

Spec == Init /\ [][Next]_vars

\* IndexSpec: the index operations of a root Directory without a Debouncer,
\* from every manifest an earlier run can have left; files are closed empty
InitIndex == InitWith(FALSE, Workers, EarlierManifests)

NextIndex ==
    FileStep({Root}, Names, Keys) \/ SubdirectoryStep(Names, {FALSE}) \/ DirectSaveStep
        \/ SaveCopyStep \/ SaveStep

IndexSpec == InitIndex /\ [][NextIndex]_vars

\* DebouncedSpec: a run under a Debouncer, as copy_tree sets it up, on a new
\* root: one subdirectory, made with or without the debouncer, and typed
\* files under another name in the root and in the subdirectory
InitDebounced == InitWith(TRUE, Workers, {})

NextDebounced ==
    FileStep(Dirs, {2}, {"files"}) \/ SubdirectoryStep({1}, BOOLEAN) \/ SaveCopyStep
        \/ SaveStep \/ DebouncerStep

DebouncedSpec == InitDebounced /\ [][NextDebounced]_vars

\* FairDebouncedSpec: a run under a Debouncer in which every subdirectory gets
\* the debouncer (as in copy_tree) and every thread is scheduled: a thread
\* that can go on with the call it is in does go on (no call is ever forced
\* to begin, and Debouncer.close() need not be called)
ThreadStep(a) ==
    \/ Set(a) \/ SaveCopy(a) \/ SaveAcquire(a) \/ SaveOpen(a) \/ SaveWrite(a)
    \/ (a = DebThread /\ (Target \/ Drain \/ DrainRelease \/ NextDirectory))

ThreadFairness == \A a \in Agents : WF_vars(ThreadStep(a))

NextFair ==
    FileStep(Dirs, {2}, {"files"}) \/ SubdirectoryStep({1}, {TRUE}) \/ SaveCopyStep
        \/ SaveStep \/ DebouncerStep

FairDebouncedSpec == InitDebounced /\ [][NextFair]_vars /\ ThreadFairness

\* FairCloseSpec: the same run, in which the caller of Debouncer.close() is
\* scheduled as well: worker.join() returns once the thread has ended
FairCloseSpec ==
    InitDebounced /\ [][NextFair]_vars /\ ThreadFairness /\ WF_vars(DebouncerJoin)

\* MixedSpec: a run under a Debouncer in which the root gets a subdirectory,
\* made with or without the debouncer, and the workers close typed files of
\* every name in that subdirectory
\* one thread that writes each file in a with block, and a process that may
\* stop at any point and run again over what it left
BlockStep ==
    \E w \in Workers :
        \/ CreateFile(w, Root, 1, "files")
        \/ BodyRaises(w)
        \/ Exit(w)
        \/ CloseRename(w)
        \/ UpdateIndex(w)
        \/ Release(w)

InitRerun == InitWith(FALSE, {1}, {})

NextRerun == WriteStep \/ BlockStep \/ SaveStep \/ Restart

RerunSpec == InitRerun /\ [][NextRerun]_vars

NextMixed ==
    FileStep({Child(Root, 1)}, Names, {"files"}) \/ SubdirectoryStep({1}, BOOLEAN)
        \/ SaveCopyStep \/ SaveStep \/ DebouncerStep

MixedSpec == InitDebounced /\ [][NextMixed]_vars

\* read_aerdat2 on one file, while no Directory is in use
InitAerdat == StoreInit(FALSE, {}, {}) /\ \E input \in Inputs : Called(input)

NextAerdat ==
    \/ HeaderLine
    \/ HeaderBreak
    \/ HeaderEOF
    \/ Frombuffer
    \/ Sort
    \/ Dvs
    \/ ApsBegin
    \/ ApsRecordStep
    \/ ApsEnd
    \/ Imu

AerdatSpec == InitAerdat /\ [][NextAerdat]_vars

\* read_aerdat1 or read_aerdat2 on one file, while no Directory is in use
InitDecode ==
    /\ StoreInit(FALSE, {}, {})
    /\ \/ \E input \in Inputs1 : Called1(input)
       \/ \E input \in Inputs \cup PolarityInputs : Called(input)

NextDecode == NextAerdat \/ HeaderBreak1 \/ Dvs1

DecodeSpec == InitDecode /\ [][NextDecode]_vars

\* copy_tree on one source tree, while no file is being decoded
InitTree ==
    /\ StoreInit(FALSE, {}, {})
    /\ file_data = <<>>
    /\ parsed_data = <<>>
    /\ aedat2 = NewAerdat2
    /\ aerdat1 = NewAerdat1
    /\ local = NoCall
    /\ \E tree \in SourceTrees, rule_list \in RuleLists : CopyTreeCalled(tree, rule_list)

NextTree ==
    Iterdir \/ VisitNode \/ Recurse \/ Return \/ Stamp \/ HandleTask \/ MapReturn

TreeSpec == InitTree /\ [][NextTree]_vars

(***************************************************************************)
(* Properties of the content files (checked under Spec).                   *)
(***************************************************************************)
\* the content files a Directory of this run has put under a final name
Published == {p \in Paths : path[p] # NoFile}

\* what is under the final path p
Content(p) == inodes[path[p]]

\* C1: the file under a final path is at every moment a complete compressed
\* stream: partial output exists only under the temporary path, and the rename
\* in close() is the only step that changes what the final name shows.
C1_FinalPathComplete ==
    \A p \in Published : IsStream(Content(p))

\* C7: the entry a close() of this run registered gives the length and the
\* hash of the bytes that are under the final path of its name.
C7_EntryMatchesPublished ==
    \A d \in Dirs : \A key \in Keys :
        dstate[d] = "open" =>
            \A i \in 1..Len(index_data[d][key]) :
                LET e == index_data[d][key][i] IN
                e.metadata = "new" =>
                    /\ <<d, e.name>> \in Published
                    /\ e.csize = Len(Content(<<d, e.name>>))
                    /\ e.chash = Hash(Content(<<d, e.name>>))

\* C8: a handle's compressor is finished at most once: a close() after the
\* first one raises the double-close error before it reaches finish().
C8_FinishedOnce ==
    \A w \in Workers : file[w].finishes <= 1

(***************************************************************************)
(* Properties of the index (checked under IndexSpec).                      *)
(***************************************************************************)
\* whether the names in keys are ascending with no name twice
StrictlySorted(keys) ==
    \A i, j \in 1..Len(keys) : i < j => keys[i] < keys[j]

\* C2: whatever moment the process stops at, the manifest path holds a whole
\* document, the earlier one or the new one, as a write to a temporary path
\* followed by a rename gives.
C2_ManifestWhole ==
    \A d \in Dirs : dstate[d] = "open" => index_file[d].st = "doc"

\* C3: under updates from several threads each of the three lists of a
\* Directory stays sorted by name and holds no name twice.
C3_ListsSorted ==
    \A d \in Dirs :
        dstate[d] = "open" =>
            /\ StrictlySorted(index_data[d].directories)
            /\ StrictlySorted(KeysOf(index_data[d].files))
            /\ StrictlySorted(KeysOf(index_data[d].other_files))

\* one thread has put a second entry into a list and still holds the update
\* lock, and another thread waits for the lock with its own entry
C3_Witness ==
    /\ Len(index_data[Root].files) = 2
    /\ \E i \in 1..2 : index_data[Root].files[i].metadata = "new"
    /\ index_update_lock[Root] \in Workers
    /\ \E w \in Workers : pc[w] = "update_index"

\* C4: no name is in more than one of the three lists of a Directory.
C4_NoNameInTwoLists ==
    \A d \in Dirs : dstate[d] = "open" => NoDup(DocNames(index_data[d]))

\* what thread w's step shows of a call that checks added_names: the call
\* fails with DuplicateAdd exactly when the name is in added_names, a failed
\* call changes nothing, a call that passes puts the name into added_names
DuplicateAddStep(w) ==
    /\ (pc[w] = "update_index" /\ pc'[w] # "update_index") =>
          LET d == file[w].d
              name == file[w].index_entry.name
          IN  IF name \in added_names[d]
              THEN /\ err'[w] = Raised("DuplicateAdd", name)
                   /\ UNCHANGED <<index_data, added_names, index_file, flags>>
              ELSE /\ err'[w].type # "DuplicateAdd"
                   /\ added_names'[d] = added_names[d] \cup {name}
                   /\ name \in Range(KeysOf(index_data'[d][file[w].key]))
    /\ (pc[w] = "idle" /\ pc'[w] = "idle" /\ err'[w] # err[w]
            /\ err'[w].type = "DuplicateAdd") =>
          /\ err'[w].name \in added_names[Root]
          /\ UNCHANGED <<index_data, added_names, index_file, flags>>
    /\ (pc[w] = "idle" /\ pc'[w] # "idle"
            /\ loc'[w].op = "create_subdirectory") =>
          LET d == loc'[w].d
              name == loc'[w].name
          IN  /\ name \notin added_names[d]
              /\ err'[w].type # "DuplicateAdd"
              /\ added_names'[d] = added_names[d] \cup {name}
              /\ name \in Range(index_data'[d].directories)

\* C9: create_subdirectory and update_index fail with DuplicateAdd exactly
\* when the name was added to this Directory earlier in this process, the
\* failed call leaves the lists, added_names, the manifest on disk and the
\* debouncer's flags as they were, and a name that is only in the loaded
\* manifest does not make the call fail.
C9_DuplicateAdd ==
    [][\A w \in Workers : DuplicateAddStep(w)]_vars

\* a name the manifest listed was added without error (the directories list
\* holds a name this process never added), and adding it again has failed
C9_Witness ==
    /\ Len(index_data[Root].directories) = 2
    /\ added_names[Root] = {1}
    /\ \E w \in Workers : err[w] = Raised("DuplicateAdd", 1)

(***************************************************************************)
(* Properties of a run under a Debouncer (checked under DebouncedSpec and   *)
(* FairDebouncedSpec).                                                     *)
(***************************************************************************)
\* whether the manifest under index_path of d is the document in memory
Flushed(d) == index_file[d] = Written(index_data[d])

\* the directories registered with the debouncer
Debounced == {d \in Dirs : dstate[d] = "open" /\ debouncer[d]}

\* C5: when Debouncer.close() has returned, and every update had returned
\* before close() was called, the manifest on disk of every debounced
\* directory is its index in memory.
C5_FlushedAtClose ==
    (closer = "returned" /\ ~late) => \A d \in Debounced : Flushed(d)

\* close() has returned after updates to the root and to a debounced child
C5_Witness ==
    /\ closer = "returned"
    /\ ~late
    /\ Debounced = Dirs
    /\ \A d \in Dirs : added_names[d] # {}

\* whether thread a is writing the manifest of a directory
Writing(a) == pc[a] \in {"open", "write"}

\* C10, as the code has it: a thread that saves with
\* index_update_lock_already_acquired=False (the debouncer thread, a direct
\* caller) does not hold index_update_lock of the directory while it writes
\* the manifest.
C10_UnlockedWrite ==
    \A a \in Agents :
        (Writing(a) /\ ~loc[a].already) => index_update_lock[loc[a].d] # a

\* the debouncer thread writes the manifest of a directory while a worker
\* is inside an update of the same directory
C10_Witness ==
    /\ Writing(DebThread)
    /\ index_update_lock[loc[DebThread].d] \in Workers

\* C10, as the claim has it: on both save paths the writing thread does not
\* hold index_update_lock while it writes.
C10_NoWriterHoldsUpdateLock ==
    \A a \in Agents : Writing(a) => index_update_lock[loc[a].d] # a

\* the update that added name to directory d has been applied and its call
\* (update_index or create_subdirectory) has returned
Returned(d, name) ==
    /\ name \in added_names[d]
    /\ \A w \in Workers : ~(Updating(w) /\ loc[w].d = d /\ loc[w].name = name)

\* the manifest under index_path of d is a whole document that lists name
OnDiskHas(d, name) ==
    /\ index_file[d].st = "doc"
    /\ name \in Range(DocNames(index_file[d].doc))

\* C6: while the debouncer thread runs, every update to a debounced
\* directory that has returned is in the end in a manifest written to disk.
C6_EventuallyFlushed ==
    \A d \in Dirs : \A name \in Names :
        (d \in Debounced /\ running /\ Returned(d, name)) ~> OnDiskHas(d, name)

\* an update to a debounced child has returned while the debouncer runs, and
\* the manifest of the child does not list it yet
C6_Witness ==
    \E d \in Debounced \ {Root} : \E name \in Names :
        /\ running
        /\ Returned(d, name)
        /\ ~OnDiskHas(d, name)

(***************************************************************************)
(* Properties of the two ways an update is saved (checked under MixedSpec). *)
(***************************************************************************)
\* what thread w's step shows of an update: without a debouncer the call
\* writes the manifest itself, and when its locked block ends the manifest on
\* disk is the index in memory, with the name; with a debouncer the call
\* raises the flag of the directory and writes nothing
SavedOrFlaggedStep(w) ==
    /\ (pc[w] = "write" /\ loc[w].already /\ pc'[w] # "write") =>
          LET d == loc[w].d
          IN  /\ ~debouncer[d]
              /\ index_file'[d] = Written(index_data'[d])
              /\ loc[w].name \in Range(DocNames(index_file'[d].doc))
    /\ (pc[w] = "set" /\ pc'[w] # "set") =>
          LET d == loc[w].d
          IN  /\ debouncer[d]
              /\ flags'[debouncer_id[d] + 1]
              /\ index_file' = index_file
    /\ (pc'[w] \in {"write_lock", "open", "write"}
            /\ loc'[w].op \in {"close", "create_subdirectory"}) =>
          ~debouncer[loc'[w].d]
    /\ (pc'[w] = "set") => debouncer[loc'[w].d]

ReplacedStep(w) ==
    (pc[w] = "update_index" /\ pc'[w] # "update_index") =>
        LET d == file[w].d
            entry == file[w].index_entry
            old == index_data[d][file[w].key]
            new == index_data'[d][file[w].key]
        IN  (entry.name \in Range(KeysOf(old)) /\ entry.name \notin added_names[d]) =>
                /\ err'[w].type = "none"
                /\ Len(new) = Len(old)
                /\ StrictlySorted(KeysOf(new))
                /\ \A i \in 1..Len(old) :
                       new[i] = IF old[i].name = entry.name THEN entry ELSE old[i]

\* C14: closing a file whose name is in the same list of the loaded manifest,
\* and was not added in this process, replaces that entry in place without
\* error: the list keeps its length and its order and holds the new entry.
C14_ReplacedInPlace ==
    [][\A w \in Workers : ReplacedStep(w)]_vars

\* the list of typed files loaded with two entries holds the new entry of
\* the first name and the entry the earlier run left for the second
C14_Witness ==
    /\ added_names[Root] = {1}
    /\ Len(index_data[Root].files) = 2
    /\ index_data[Root].files[1].metadata = "new"
    /\ index_data[Root].files[2] = OldEntry(2)

(***************************************************************************)
(* Properties of a run that is interrupted and repeated, and of with       *)
(* blocks (checked under RerunSpec).                                       *)
(***************************************************************************)
\* no final name, no entry: neither the manifest in memory nor the one on disk
\* names a file that is not under its final path
NothingBeforeRename ==
    \A name \in Names :
        <<Root, name>> \notin Published =>
            /\ name \notin Range(DocNames(index_data[Root]))
            /\ name \notin Range(DocNames(OnDisk(index_file[Root])))

\* the rename in close() puts under the final name the stream of exactly the
\* bytes this handle was given
RepublishedStep(w) ==
    (pc[w] = "rename" /\ pc'[w] = "update_index") =>
        LET p == <<file[w].d, file[w].name>> IN
        /\ path'[p] # NoFile
        /\ inodes'[path'[p]] = Encode(file[w].written) \o <<Trailer>>

\* C12: a process that stops before the rename in close() leaves nothing under
\* the final name and no index entry for it, and the same create/write/close
\* sequence run again publishes the file an uninterrupted run produces: the
\* stale temporary file is emptied when it is opened again.
C12_RerunRepublishes ==
    /\ []NothingBeforeRename
    /\ [][\A w \in Workers : RepublishedStep(w)]_vars

\* a handle that found a stale temporary file has written and published
C12_Witness ==
    \E w \in Workers :
        /\ file[w].obj
        /\ file[w].reopened
        /\ file[w].written # <<>>
        /\ pc[w] = "update_index"
        /\ Content(<<file[w].d, file[w].name>>) = Encode(file[w].written) \o <<Trailer>>

OnlyHeaderLines(d) ==
    /\ \A i \in 1..Len(d) :
          /\ d[i] < AsciiEnd
          /\ (i = 1 \/ d[i - 1] = Newline) => d[i] = HashByte
    /\ Len(d) > 0 => d[Len(d)] = Newline

\* after whole header lines, d has at position i (from 0) a '#' that no
\* newline follows
UnterminatedAt(d, i) ==
    /\ d[i + 1] = HashByte
    /\ OnlyHeaderLines(Slice(d, 0, i))
    /\ \A j \in (i + 2)..Len(d) : d[j] # Newline

\* C15 (as stated): a '#' line that has no newline before the end of the input
\* makes header stripping fail with the truncated-header error.
C15_UnterminatedRaises ==
    \A i \in 0..(Len(local.input) - 1) :
        (UnterminatedAt(local.input, i) /\ local.pc # "header") =>
            /\ local.pc = "raised"
            /\ local.exception = "IncompleteHeader"

\* C15 (amended): a '#' line that has no newline before the end of the input
\* ends the header without an error: the header is the whole lines before it,
\* and the line itself is the start of the records.
C15_UnterminatedIsData ==
    \A i \in 0..(Len(local.input) - 1) :
        (UnterminatedAt(local.input, i) /\ local.pc # "header") =>
            LET body == Slice(local.input, i, Len(local.input)) IN
            /\ local.pc # "raised"
            /\ local.exception = "none"
            /\ local.header = decode(Slice(local.input, 0, i)).str
            /\ aedat2.header = local.header
            /\ file_data = Slice(body, 0, (Len(body) \div RecordBytes) * RecordBytes)

\* after a header line, a record that begins with '#' has been decoded as the
\* polarity event it is
C15_Witness ==
    /\ local.pc = "returned"
    /\ Len(local.input) > 3
    /\ UnterminatedAt(local.input, 3)
    /\ Len(aedat2.header) = 3
    /\ Len(aedat2.dvs) >= 1
    /\ aedat2.dvs[1].y = HashRow

\* C16 (as stated): when the input ends after zero or more whole header lines,
\* the decoder returns normally, with that header and no event arrays.
C16_EndOfInputReturns ==
    (OnlyHeaderLines(local.input) /\ local.pc # "header") =>
        /\ local.pc # "raised"
        /\ local.exception = "none"

\* C16 (amended): the decoder raises IncompleteHeader, and returns nothing,
\* exactly when the input is empty or is made only of newline-terminated ASCII
\* '#' lines.
C16_EndOfInputRaises ==
    local.pc # "header" =>
        /\ local.pc = "raised" <=> OnlyHeaderLines(local.input)
        /\ local.pc = "raised" =>
              /\ local.exception = "IncompleteHeader"
              /\ aedat2 = NewAerdat2

\* a file of one header line and nothing else has raised
C16_Witness ==
    /\ local.pc = "raised"
    /\ Len(local.input) >= 3
    /\ OnlyHeaderLines(local.input)

\* a frame record of a pixel of the sensor
InFrame(r) == aps_mask(r) /\ extract_x(r) < Width /\ extract_y(r) < Height
PixelOf(r) == <<extract_x(r), extract_y(r)>>

\* two reset-then-signal cycles of one pixel
SinglePixelCycles(records) ==
    /\ Len(records) = 4
    /\ \A i \in 1..4 :
          /\ InFrame(records[i])
          /\ PixelOf(records[i]) = PixelOf(records[1])
          /\ Kind(records[i]) = IF i % 2 = 1 THEN Reset ELSE Signal

\* a reset of pixel (0, 0), then a reset of another pixel and a signal sample,
\* in either order
MarkedCycle(a, b, c) ==
    /\ InFrame(a) /\ InFrame(b) /\ InFrame(c)
    /\ Kind(a) = Reset /\ PixelOf(a) = <<0, 0>>
    /\ \/ Kind(b) = Reset /\ PixelOf(b) # <<0, 0>> /\ Kind(c) = Signal
       \/ Kind(c) = Reset /\ PixelOf(c) # <<0, 0>> /\ Kind(b) = Signal

TwoMarkedCycles(records) ==
    /\ Len(records) = 6
    /\ MarkedCycle(records[1], records[2], records[3])
    /\ MarkedCycle(records[4], records[5], records[6])

\* C17 (as stated): two reset-then-signal cycles of one pixel, whichever it
\* is, decode to exactly 2 frames, and aps_corrupted is false.
C17_SinglePixelTwoFrames ==
    (local.pc = "returned" /\ SinglePixelCycles(parsed_data)) =>
        /\ Len(aedat2.aps) = 2
        /\ ~aedat2.aps_corrupted

\* C17 (amended): a frame begins at a reset of pixel (0, 0) and counts only
\* if a reset of another pixel and a signal sample follow. Two such cycles
\* decode to exactly 2 frames; two cycles of one pixel decode to 1 frame if
\* the pixel is not (0, 0), and to no frame and aps_corrupted if it is.
C17_MarkedCyclesTwoFrames ==
    local.pc = "returned" =>
        /\ TwoMarkedCycles(parsed_data) =>
              /\ Len(aedat2.aps) = 2
              /\ ~aedat2.aps_corrupted
              /\ aedat2.aps[1].begin_t = parsed_data[1].t
              /\ aedat2.aps[2].begin_t = parsed_data[4].t
        /\ SinglePixelCycles(parsed_data) =>
              IF PixelOf(parsed_data[1]) = <<0, 0>>
              THEN aedat2.aps = None /\ aedat2.aps_corrupted
              ELSE Len(aedat2.aps) = 1 /\ ~aedat2.aps_corrupted

\* two marked cycles have been decoded to two frames
C17_Witness ==
    /\ local.pc = "returned"
    /\ TwoMarkedCycles(parsed_data)
    /\ Len(aedat2.aps) = 2

\* seven inertial records of one timestamp whose tags are 0..6, each once
OneGroupAnyOrder(records) ==
    /\ Len(records) = ImuSlots
    /\ \A i \in 1..Len(records) : imu_mask(records[i]) /\ records[i].t = records[1].t
    /\ {TypeOf(records[i]) : i \in 1..Len(records)} = 0..(ImuSlots - 1)

\* the tags of the records are 0, 1, ... in this order
InSlotOrder(records) == \A i \in 1..Len(records) : TypeOf(records[i]) = i - 1

\* C18 (as stated): seven inertial records of one timestamp whose tags cover
\* 0..6 in any order decode to exactly 1 sample, and imu_corrupted is false.
C18_AnyOrderOneSample ==
    (local.pc = "returned" /\ OneGroupAnyOrder(parsed_data)) =>
        /\ Len(aedat2.imu) = 1
        /\ ~aedat2.imu_corrupted

\* C18 (amended): seven inertial records of one timestamp decode to exactly 1
\* sample only if their tags are 0..6 in slot order; in any other order of
\* the seven tags there is no IMU array and imu_corrupted is true.
C18_SlotOrderOneSample ==
    (local.pc = "returned" /\ OneGroupAnyOrder(parsed_data)) =>
        IF InSlotOrder(parsed_data)
        THEN /\ Len(aedat2.imu) = 1
             /\ ~aedat2.imu_corrupted
             /\ aedat2.imu[1].accelerometer_x = SampleOf(parsed_data[1])
             /\ aedat2.imu[1].gyroscope_z = SampleOf(parsed_data[ImuSlots])
        ELSE /\ aedat2.imu = None
             /\ aedat2.imu_corrupted

\* a group whose tags cover 0..6 with tag 6 first has been decoded
C18_Witness ==
    /\ local.pc = "returned"
    /\ OneGroupAnyOrder(parsed_data)
    /\ TypeOf(parsed_data[1]) = ImuSlots - 1
    /\ aedat2.imu_corrupted

\* the inertial records, and their timestamps that seven of them share
ImuRecords == SelectSeq(parsed_data, imu_mask)
SevenGroups == {t \in Timestamps(ImuRecords) : Count(ImuRecords, t) = ImuSlots}

\* the type-tag check of one group: its records carry 0..6 in this order
GroupPasses(t) ==
    InSlotOrder(SelectSeq(ImuRecords, LAMBDA r : r.t = t))

\* C19: if any group of seven fails the type-tag check, imu_corrupted is true
\* and there is no IMU array, whatever the other groups are; if every group
\* of seven passes, the array has one sample per group of seven and
\* imu_corrupted is false.
C19_FailTogether ==
    (local.pc = "returned" /\ SevenGroups # {}) =>
        IF \E t \in SevenGroups : ~GroupPasses(t)
        THEN /\ aedat2.imu_corrupted
             /\ aedat2.imu = None
        ELSE /\ ~aedat2.imu_corrupted
             /\ Len(aedat2.imu) = Cardinality(SevenGroups)
             /\ {aedat2.imu[k].t : k \in 1..Len(aedat2.imu)} = SevenGroups

\* a well-formed group and a group of seven records with six distinct tags
\* have been decoded
C19_Witness ==
    /\ local.pc = "returned"
    /\ Cardinality(SevenGroups) = 2
    /\ \E t \in SevenGroups : GroupPasses(t)
    /\ \E t \in SevenGroups :
          Cardinality({TypeOf(ImuRecords[i]) : i \in Members(ImuRecords, t)}) = ImuSlots - 1
    /\ aedat2.imu_corrupted
    /\ aedat2.imu = None

\* C20: a group that has not seven members is dropped without an error while
\* some group has seven; inertial records none of whose groups has seven are
\* reported by imu_corrupted.
C20_IncompleteGroups ==
    (local.pc = "returned" /\ Len(ImuRecords) > 0) =>
        /\ (SevenGroups # {} /\ \A t \in SevenGroups : GroupPasses(t)) =>
              /\ ~aedat2.imu_corrupted
              /\ Len(aedat2.imu) = Cardinality(SevenGroups)
        /\ SevenGroups = {} => aedat2.imu_corrupted

\* the frame records of the file, and the frames the loop has emitted
ApsRecords == SelectSeq(parsed_data, aps_mask)
Emitted == local.t_frames

\* C21 (as stated): a stream for which no frame is emitted has aps_corrupted
\* and no APS array; a stream with frames has one element per frame and not
\* aps_corrupted; neither raises.
C21_NoFrameIsCorrupted ==
    local.pc = "returned" =>
        /\ local.exception = "none"
        /\ IF Len(Emitted) = 0
           THEN aedat2.aps_corrupted /\ aedat2.aps = None
           ELSE ~aedat2.aps_corrupted /\ Len(aedat2.aps) = Len(Emitted)

\* C21 (amended): a stream without any frame record has no APS array and is
\* not aps_corrupted; a stream with frame records is aps_corrupted, without
\* an APS array, if no frame is emitted, and else has one array element per
\* emitted frame and is not aps_corrupted; none of these raises.
C21_FramesOrCorrupted ==
    local.pc = "returned" =>
        /\ local.exception = "none"
        /\ IF Len(ApsRecords) = 0
           THEN ~aedat2.aps_corrupted /\ aedat2.aps = None /\ Len(Emitted) = 0
           ELSE IF Len(Emitted) = 0
           THEN aedat2.aps_corrupted /\ aedat2.aps = None
           ELSE ~aedat2.aps_corrupted /\ Len(aedat2.aps) = Len(Emitted)

\* a file of polarity events and of frame records that make no frame has been
\* decoded
C21_Witness ==
    /\ local.pc = "returned"
    /\ Len(ApsRecords) > 0
    /\ Len(Emitted) = 0
    /\ aedat2.aps_corrupted
    /\ aedat2.dvs # None

\* the event of a polarity record
EventOf(r) == [t |-> r.t, x |-> extract_x(r), y |-> extract_y(r), p |-> Polarity(r)]

\* C22: the polarity events come out in non-decreasing order of timestamp,
\* events of one timestamp in the order of their records in the file (and so
\* a file that is in order is decoded in its order), and no order of the
\* timestamps raises.
C22_StableByTime ==
    local.pc = "returned" =>
        LET records == SelectSeq(SortByT(frombuffer(file_data)), dvs_mask) IN
        /\ local.exception = "none"
        /\ aedat2.dvs = [i \in 1..Len(records) |-> EventOf(records[i])]

\* C29: in every frame of the APS array the first reset is not after the
\* last reset, and the first signal not after the last signal.
C29_FrameTimesOrdered ==
    \A i \in 1..Len(aedat2.aps) :
        /\ aedat2.aps[i].begin_t <= aedat2.aps[i].exposure_begin_t
        /\ aedat2.aps[i].t <= aedat2.aps[i].exposure_end_t

\* a file whose timestamps go down has been decoded to a frame whose resets
\* are at two times
C29_Witness ==
    /\ local.pc = "returned"
    /\ Decreases(frombuffer(file_data))
    /\ Len(aedat2.aps) >= 1
    /\ aedat2.aps[1].begin_t < aedat2.aps[1].exposure_begin_t

\* one record of the frame loop, and the end of the loop
FrameStep ==
    /\ (local.pc = "aps_loop" /\ local'.pc = "aps_loop") =>
          LET r == ApsRecords[local.index + 1]
              marker == InFrame(r) /\ Kind(r) = Reset /\ PixelOf(r) = <<0, 0>>
              emits == marker /\ Timed(local)
              n == Len(local.t_frames)
          IN  /\ Len(local'.t_frames) = n + (IF emits THEN 1 ELSE 0)
              /\ SubSeq(local'.t_frames, 1, n) = local.t_frames
              /\ emits =>
                    LET f == local'.t_frames[n + 1] IN
                    /\ f.pixels.at_append = local.current_frame
                    /\ f.first_reset = local.first_reset
                    /\ f.last_reset = local.last_reset
                    /\ f.first_signal = local.first_signal
                    /\ f.last_signal = local.last_signal
              /\ marker =>
                    local'.current_frame =
                        [q \in FramePixels |-> IF q = <<0, 0>> THEN aps_sample(r) ELSE 0]
    /\ (local.pc = "aps_loop" /\ local'.pc = "imu") =>
          LET n == Len(local.t_frames) IN
          /\ Len(local'.t_frames) = n + (IF Timed(local) THEN 1 ELSE 0)
          /\ Len(aedat2'.aps) = Len(local'.t_frames)
          /\ \A i \in 1..n :
                aedat2'.aps[i].pixels = local.t_frames[i].pixels.at_append
          /\ Timed(local) => aedat2'.aps[n + 1].pixels = local.current_frame

\* C30: a frame is emitted only when a reset of pixel (0, 0) is processed and
\* at the end of the stream, and then exactly when the four timestamps of
\* the frame in progress are set; the frame emitted at a reset of (0, 0) is
\* the grid as it was before that record, whatever the later records are,
\* and after that record the grid is zero except at pixel (0, 0).
C30_EmittedAtMarkers == [][FrameStep]_vars

\* two frames of different grids have been decoded
C30_Witness ==
    /\ local.pc = "returned"
    /\ Len(aedat2.aps) = 2
    /\ aedat2.aps[1].pixels # aedat2.aps[2].pixels

(***************************************************************************)
(* The gen-1 decoder (checked under DecodeSpec).                           *)
(***************************************************************************)
\* the bytes read_aerdat_header handed back: the input after its header
Payload == Slice(local.input, local.index, Len(local.input))

\* the events of an array, none for an array that was never assigned
Events(array) == IF array = None THEN <<>> ELSE array

Returned1 == local.caller = "read_aerdat1" /\ local.pc = "returned"

\* C23: read_aerdat1 returns floor(length / 6) events for a payload of any
\* length, and the event of record i has x = 127 - byte1 div 2, y = byte0
\* mod 128, p = 2 * (bit 7 of byte0) + (bit 0 of byte1) and t = the value of
\* bytes 2..5, most significant first; x and y lie in 0..127, and the bytes
\* (0, 0) give x = 127, y = 0, p = 0
C23_Gen1Fields ==
    Returned1 =>
        LET events == Events(aerdat1.dvs) IN
        /\ Len(events) = Len(Payload) \div 6
        /\ \A i \in 1..Len(events) :
              LET o == 6 * (i - 1)
                  byte0 == Payload[o + 1]
                  byte1 == Payload[o + 2]
                  e == events[i]
              IN  /\ e.x = 127 - byte1 \div 2
                  /\ e.y = byte0 % 128
                  /\ e.p = 2 * (byte0 \div 128) + (byte1 % 2)
                  /\ e.t = Payload[o + 3] * 16777216 + Payload[o + 4] * 65536
                               + Payload[o + 5] * 256 + Payload[o + 6]
                  /\ e.x \in 0..127
                  /\ e.y \in 0..127
                  /\ (byte0 = 0 /\ byte1 = 0) => (e.x = 127 /\ e.y = 0 /\ e.p = 0)

\* a record with every bit of byte1 set was decoded, and so were two records
\* of a payload that ends in the middle of a third
C23_Witness ==
    /\ Returned1
    /\ \/ Len(Payload) = 6 /\ Payload[2] = 255 /\ Events(aerdat1.dvs)[1].x = 0
       \/ Len(Payload) = 13 /\ Len(Events(aerdat1.dvs)) = 2

\* the events either decoder returned
Polarities ==
    IF local.pc # "returned" THEN {}
    ELSE LET events == IF local.caller = "read_aerdat1" THEN Events(aerdat1.dvs)
                       ELSE Events(aedat2.dvs)
         IN  {events[i].p : i \in 1..Len(events)}

\* C24 as stated: the p of every event of read_aerdat1 and of read_aerdat2 is
\* 0 or 1
C24_PolarityOneBit == Polarities \subseteq {0, 1}

\* the records of a gen-2 file that are polarity events, in the order
\* read_aerdat2 handles them
Gen2DvsRecords == SelectSeq(parsed_data, dvs_mask)

Returned2 == local.caller = "read_aerdat2" /\ local.pc = "returned"

\* C24, amended: the p of every event is a two-bit value 0..3. In a gen-1
\* event its bit 0 is bit 0 of byte1 and its bit 1 is bit 7 of byte0; in a
\* gen-2 event its bit 0 is bit 3 of d2 and its bit 1 is bit 2 of d2.
C24_PolarityTwoBits ==
    /\ Polarities \subseteq 0..3
    /\ Returned1 =>
          \A i \in 1..Len(Events(aerdat1.dvs)) :
              LET p == Events(aerdat1.dvs)[i].p
                  o == 6 * (i - 1)
              IN  /\ p % 2 = Payload[o + 2] % 2
                  /\ p \div 2 = Payload[o + 1] \div 128
    /\ Returned2 =>
          /\ Len(Events(aedat2.dvs)) = Len(Gen2DvsRecords)
          /\ \A i \in 1..Len(Gen2DvsRecords) :
                LET p == Events(aedat2.dvs)[i].p
                    d2 == Gen2DvsRecords[i].d2
                IN  /\ p % 2 = (d2 \div 8) % 2
                    /\ p \div 2 = (d2 \div 4) % 2

\* a decoder has returned an event with p = 3: read_aerdat1 for a record with
\* bit 7 of byte0 and bit 0 of byte1 set, or read_aerdat2 for a record with
\* bits 2 and 3 of d2 set
C24_Witness ==
    /\ 3 \in Polarities
    /\ \/ Returned1 /\ Payload[1] >= 128 /\ Payload[2] % 2 = 1
       \/ Returned2 /\ Len(Gen2DvsRecords) = 1 /\ (Gen2DvsRecords[1].d2 \div 4) % 4 = 3


(***************************************************************************)
(* tasks() and copy_tree (checked under TreeSpec).                         *)
(***************************************************************************)
\* the paths of the nodes below a directory of the source tree
RECURSIVE PathsBelow(_, _)
PathsBelow(nodes, prefix) ==
    UNION {LET node == Append(prefix, NamePool[i]) IN
           IF nodes[i].kind = "absent" THEN {}
           ELSE IF nodes[i].kind = "file" THEN {node}
           ELSE {node} \cup PathsBelow(nodes[i].nodes, node) :
           i \in 1..Len(NamePool)}

SourcePaths == PathsBelow(source_tree, <<>>)
SourceFiles == {node \in SourcePaths : ~is_dir(source_tree, node)}
SourceDirectories == {node \in SourcePaths : is_dir(source_tree, node)}

\* node is other, or a directory other is below
IsPrefix(node, other) ==
    Len(node) <= Len(other) /\ SubSeq(other, 1, Len(node)) = node

ParentOf(node) == SubSeq(node, 1, Len(node) - 1)

\* the source of the task at a position of tasks_list
SourceOf(i) == tasks_list[i].source

\* the rules of the list that match an entry, by their positions
Matching(node) == {k \in 1..Len(rules) : match(rules[k], node)}

\* the name the first matching rule of each type gives an entry, the rules
\* taken in the order of the list
RECURSIVE FirstOfEachType(_, _, _, _)
FirstOfEachType(rule_list, node, target_name, seen) ==
    IF rule_list = <<>> THEN target_name
    ELSE LET rule == Head(rule_list) IN
         IF match(rule, node) /\ rule.type \notin seen
         THEN FirstOfEachType(Tail(rule_list), node, rename(rule, target_name),
                              seen \cup {rule.type})
         ELSE FirstOfEachType(Tail(rule_list), node, target_name, seen)

\* C25 as stated: the destination name of every task is the one the first
\* matching rule of each type gives; a later matching rule of a type that
\* has matched before changes nothing
C25_FirstMatchOfEachType ==
    \A i \in 1..Len(tasks_list) :
        tasks_list[i].target_name =
            FirstOfEachType(rules, SourceOf(i), NameOf(SourceOf(i)), {})

\* a rule that skips matches the entry
SkipApplies(node) ==
    \E k \in 1..Len(rules) :
        rules[k].type = "SkipName" /\ rules[k].match_name = NameOf(node)

\* C26: an entry that a skipping rule matches has no task and no destination
\* subdirectory, and neither has anything below it, whatever renaming rules
\* match the entry before or after the skipping rule
C26_SkippedIsLeftOut ==
    \A node \in SourcePaths :
        SkipApplies(node) =>
            /\ \A i \in 1..Len(tasks_list) : ~IsPrefix(node, SourceOf(i))
            /\ \A c \in created : ~IsPrefix(node, c.source)

\* copy_tree has returned for a tree with a skipped directory that holds a
\* child, and a renaming rule matches that directory before the skipping
\* rule and another one after it
C26_Witness ==
    /\ copy_pc = "returned"
    /\ \E node \in SourceDirectories :
          /\ \E child \in SourceFiles : ParentOf(child) = node
          /\ \E k1, k2, k3 \in Matching(node) :
                /\ k1 < k2 /\ k2 < k3
                /\ rules[k1].type # "SkipName"
                /\ rules[k2].type = "SkipName"
                /\ rules[k3].type # "SkipName"

\* C27: in tasks_list the files of one directory come in the order of their
\* names, and before every task of what is below a subdirectory of theirs;
\* of two subdirectories of one directory the tasks of the one whose name
\* comes first are all before the tasks of the other; the tasks below a
\* directory have no other task between them. The order of iterdir() has no
\* part in it.
C27_TaskOrder ==
    /\ \A i, j \in 1..Len(tasks_list) :
          /\ (ParentOf(SourceOf(i)) = ParentOf(SourceOf(j)) /\ i < j) =>
                 Before(NameOf(SourceOf(i)), NameOf(SourceOf(j)))
          /\ (IsPrefix(ParentOf(SourceOf(i)), SourceOf(j))
                  /\ Len(SourceOf(j)) > Len(SourceOf(i))) => i < j
          /\ \A d \in 0..MaxDepth :
                (/\ d + 1 < Len(SourceOf(i))
                 /\ d + 1 < Len(SourceOf(j))
                 /\ SubSeq(SourceOf(i), 1, d) = SubSeq(SourceOf(j), 1, d)
                 /\ Before(SourceOf(i)[d + 1], SourceOf(j)[d + 1])) => i < j
    /\ \A directory \in SourceDirectories :
          \A i, j, k \in 1..Len(tasks_list) :
              (i < k /\ k < j /\ IsPrefix(directory, SourceOf(i))
                   /\ IsPrefix(directory, SourceOf(j))) =>
                  IsPrefix(directory, SourceOf(k))

\* copy_tree has returned with the tasks of two files of the root and, after
\* them, the task of a child of a subdirectory whose name comes before theirs
C27_Witness ==
    /\ copy_pc = "returned"
    /\ Len(tasks_list) = 3
    /\ Len(SourceOf(1)) = 1
    /\ Len(SourceOf(2)) = 1
    /\ Len(SourceOf(3)) = 2
    /\ Before(SourceOf(3)[1], SourceOf(1)[1])

\* no rule that skips matches the entry or a directory it is below
Kept(node) == \A k \in 1..Len(node) : ~SkipApplies(SubSeq(node, 1, k))

\* a call of handle_task begins
HandlerBegins == handled' # handled

\* C28: when a call of handle_task begins, tasks() has ended with a task for
\* every child that is kept and a destination subdirectory for every
\* directory that is kept, and the task at position i of tasks_list (from 1)
\* has index i - 1 and total len(tasks_list)
C28_HandlersAfterStamping ==
    [][HandlerBegins =>
          /\ stack = <<>>
          /\ {SourceOf(i) : i \in 1..Len(tasks_list)} = {node \in SourceFiles : Kept(node)}
          /\ {c.source : c \in created} = {node \in SourceDirectories : Kept(node)}
          /\ \A i \in 1..Len(tasks_list) :
                /\ tasks_list[i].index = i - 1
                /\ tasks_list[i].total = Len(tasks_list)]_vars

\* handle_task was called on the second of three tasks before the first,
\* after a destination subdirectory was made
C28_Witness ==
    /\ Len(tasks_list) = 3
    /\ handled = {1}
    /\ created # {}


(***************************************************************************)
(* The grid of the frame loop (checked under AerdatSpec).                  *)
(***************************************************************************)
\* one turn of the loop over the frame records, and the record it handles
LoopTurn == local.pc = "aps_loop" /\ local'.pc = "aps_loop" /\ local'.index = local.index + 1
TurnRecord == SelectSeq(parsed_data, aps_mask)[local.index + 1]

\* the column, row, kind and sample of a record, from its bytes
ColumnOf(r) == (r.d1 % 64) * 16 + r.d2 \div 16
RowOf(r) == (r.d0 % 128) * 4 + r.d1 \div 64
IsReset(r) == (r.d2 \div 4) % 4 = 0
IsSignal(r) == (r.d2 \div 4) % 4 = 1
TenBits(r) == (r.d2 % 4) * 256 + r.d3

\* C31: in every turn of the loop every pixel of the grid is left within
\* 0..1023; a reset leaves its 10-bit sample in its pixel, a signal leaves
\* max(0, previous value - sample) there, which a 16-bit subtraction that
\* wrapped around would not; a record with x >= 240 or y >= 180 changes
\* neither the grid nor any of the four timestamps
C31_GridStaysInRange ==
    [][LoopTurn =>
          LET r == TurnRecord
              pixel == <<ColumnOf(r), RowOf(r)>>
              before == local.current_frame
              after == local'.current_frame
          IN  /\ \A q \in DOMAIN after : after[q] \in 0..1023
              /\ IF ColumnOf(r) >= 240 \/ RowOf(r) >= 180
                 THEN /\ after = before
                      /\ local'.first_reset = local.first_reset
                      /\ local'.last_reset = local.last_reset
                      /\ local'.first_signal = local.first_signal
                      /\ local'.last_signal = local.last_signal
                 ELSE /\ IsReset(r) => after[pixel] = TenBits(r)
                      /\ IsSignal(r) =>
                            after[pixel] = IF before[pixel] - TenBits(r) < 0 THEN 0
                                           ELSE before[pixel] - TenBits(r)]_vars

\* the loop has handled a reset with sample 1 and then a signal of the same
\* pixel with sample 1023, which left 0 there, and then a record outside the
\* sensor
C31_Witness ==
    LET aps_data == SelectSeq(parsed_data, aps_mask) IN
    /\ local.pc = "aps_loop"
    /\ local.index = 3
    /\ Len(aps_data) = 3
    /\ IsReset(aps_data[1]) /\ TenBits(aps_data[1]) = 1
    /\ IsSignal(aps_data[2]) /\ TenBits(aps_data[2]) = 1023
    /\ ColumnOf(aps_data[1]) = ColumnOf(aps_data[2])
    /\ RowOf(aps_data[1]) = RowOf(aps_data[2])
    /\ ColumnOf(aps_data[3]) >= 240 \/ RowOf(aps_data[3]) >= 180
    /\ local.current_frame[<<ColumnOf(aps_data[1]), RowOf(aps_data[1])>>] = 0

(***************************************************************************)
(* The order of the manifest writes (checked under IndexSpec).             *)
(***************************************************************************)
\* thread a holds a copy of the index_data of d that it has not written yet
HoldsSnapshot(a, d) == pc[a] \in {"write_lock", "open", "write"} /\ loc[a].d = d
HasWriteLock(a, d) == pc[a] \in {"open", "write"} /\ loc[a].d = d

\* thread a takes its copy of the index_data of d in this step
TakesSnapshot(a, d) ==
    /\ pc[a] # "write_lock"
    /\ pc'[a] = "write_lock"
    /\ loc'[a].d = d

\* thread a writes its copy under the index_path of d in this step
WritesSnapshot(a, d) == pc[a] = "write" /\ loc[a].d = d /\ pc'[a] # "write"

\* C32: the copies of one Directory reach the disk in the order they were
\* taken: when a thread takes a copy, every copy taken before and not yet
\* written is in the hands of the thread that holds the write lock; the
\* thread that writes holds the write lock and writes its own copy, and no
\* copy taken before it is still to be written; so once no thread holds an
\* unwritten copy the manifest on the disk is the copy taken last
C32_SnapshotOrder ==
    /\ [](\A d \in Dirs :
            (last_snapshot[d] # NoSnapshot /\ \A a \in Agents : ~HoldsSnapshot(a, d))
                => index_file[d] = Written(last_snapshot[d][1]))
    /\ [][\A d \in Dirs, a \in Agents :
            /\ TakesSnapshot(a, d) =>
                   /\ last_snapshot'[d] = <<loc'[a].index_data>>
                   /\ \A b \in Agents \ {a} :
                          HoldsSnapshot(b, d) => index_write_lock[d] = b
            /\ WritesSnapshot(a, d) =>
                   /\ index_write_lock[d] = a
                   /\ index_file'[d] = Written(loc[a].index_data)
                   /\ \A b \in Agents \ {a} :
                          HoldsSnapshot(b, d) =>
                              /\ pc[b] = "write_lock"
                              /\ last_snapshot[d] = <<loc[b].index_data>>]_vars

\* one thread is writing a copy of the root's index_data while a second
\* thread, which took a later and different copy, waits for the write lock
C32_Witness ==
    \E a, b \in Agents :
        /\ HasWriteLock(a, Root)
        /\ index_file[Root] = Truncated
        /\ pc[b] = "write_lock" /\ loc[b].d = Root
        /\ loc[a].index_data # loc[b].index_data
        /\ last_snapshot[Root] = <<loc[b].index_data>>

(***************************************************************************)
(* The three locks (checked under FairCloseSpec).                          *)
(***************************************************************************)
\* thread a is inside a call
InCall(a) == pc[a] \notin {"idle", "none", "done"}

\* the steps of thread a inside the call it is in
CallStep(a) ==
    \/ ThreadStep(a)
    \/ a \in Workers /\ (CloseRename(a) \/ UpdateIndex(a) \/ CreateChild(a))

\* the lock thread a has to acquire in its next step: its holder, or Free
Awaited(a) ==
    CASE pc[a] = "update_index" -> index_update_lock[file[a].d]
      [] pc[a] = "update_lock" -> index_update_lock[loc[a].d]
      [] pc[a] = "write_lock" -> index_write_lock[loc[a].d]
      [] pc[a] \in {"set", "drain"} -> lock
      [] pc[a] = "child" ->
            IF /\ loc[a].deb
               /\ Tracked(loc[a].d, loc[a].name)
               /\ Opens(index_file[Child(loc[a].d, loc[a].name)])
            THEN lock ELSE Free
      [] OTHER -> Free

\* the locks thread a holds
Held(a) ==
    {<<"update", d>> : d \in {e \in Dirs : index_update_lock[e] = a}}
        \cup {<<"write", d>> : d \in {e \in Dirs : index_write_lock[e] = a}}
        \cup {<<"flags", d>> : d \in {e \in {Root} : lock = a}}

\* from thread a, n steps along "waits for the holder of" end at a thread
\* that waits for nothing
RECURSIVE Unblocks(_, _)
Unblocks(a, n) ==
    IF Awaited(a) = Free THEN TRUE
    ELSE IF n = 0 THEN FALSE
    ELSE Unblocks(Awaited(a), n - 1)

\* C33: no state has a deadlock over the three locks: from every thread the
\* chain of lock holders it waits for ends at a thread that waits for no
\* lock, that thread can take a step if it is inside a call, and a thread
\* outside every call holds no lock; and once Debouncer.close() has been
\* called it returns
C33_NoDeadlockAndCloseReturns ==
    /\ [](\A a \in Agents :
            /\ Unblocks(a, Cardinality(Agents))
            /\ (InCall(a) /\ Awaited(a) = Free) => ENABLED CallStep(a)
            /\ ~InCall(a) => Held(a) = {})
    /\ (closer = "join" ~> closer = "returned")

\* Debouncer.close() has been called while the debouncer thread holds the
\* flag lock, a worker that holds the update lock of the root waits for the
\* flag lock in set(), and the other worker waits for that update lock
C33_Witness ==
    /\ closer = "join"
    /\ lock = DebThread
    /\ \E w, v \in Workers :
           /\ pc[w] = "set" /\ index_update_lock[Root] = w
           /\ pc[v] = "update_index" /\ file[v].d = Root

(***************************************************************************)
(* Entries and their content files (checked under Spec).                   *)
(***************************************************************************)
\* the entries of a manifest that update_index put there in this run
RegisteredEntries(doc) ==
    {e \in Range(doc.files) \cup Range(doc.other_files) : e.metadata = "new"}

\* the manifest on the disk of d, when a whole manifest lies there
ManifestOnDisk(d) ==
    IF index_file[d].st = "doc" THEN index_file[d].doc ELSE DEFAULT_INDEX_DATA

\* the file under the final path is a whole compressed stream
WholeStream(d, name) == <<d, name>> \in Published /\ IsStream(inodes[path[<<d, name>>]])

\* every entry of this run, in memory and on the disk, names a file that
\* lies under its final path
EntriesNameAFile ==
    \A d \in Dirs :
        \A e \in RegisteredEntries(index_data[d]) \cup RegisteredEntries(ManifestOnDisk(d)) :
            <<d, e.name>> \in Published

\* C34: in every state every entry registered in this run, in index_data and
\* in the manifest on the disk, names a content file that lies under its
\* final path and is complete (a whole compressed stream), so that a stop at
\* that state leaves no entry of this run without its complete content file
C34_EntriesNamePublished ==
    \A d \in Dirs :
        \A e \in RegisteredEntries(index_data[d]) \cup RegisteredEntries(ManifestOnDisk(d)) :
            WholeStream(d, e.name)

(***************************************************************************)
(* A close() that fails on a name added before (checked under Spec).       *)
(***************************************************************************)
\* the close() of the file worker w holds has raised the duplicate-add error
FailedDuplicateClose(w) ==
    /\ file[w].obj
    /\ pc[w] = "idle"
    /\ err[w] = Raised("DuplicateAdd", file[w].name)

\* C35: after a close() that failed with the duplicate-add error, the file
\* under the final path of the name is not the file of the failed handle,
\* and it still has the compressed size and hash that the entry registered
\* under the name records
C35_FailedCloseLeavesPublished ==
    \A w \in Workers :
        FailedDuplicateClose(w) =>
            LET d == file[w].d
                p == <<d, file[w].name>>
            IN  /\ p \in Published
                /\ path[p] # file[w].inode
                /\ \A key \in Keys : \A i \in 1..Len(index_data[d][key]) :
                       LET e == index_data[d][key][i] IN
                       e.name = file[w].name =>
                           /\ e.csize = Len(Content(p))
                           /\ e.chash = Hash(Content(p))

====
